---- MODULE Spec2Model ----
(***************************************************************************)
(* SmartPlex: the streaming library sync (apps/api/app/api/routes/         *)
(* plex_sync.py), the cascade deletion service (apps/api/app/services/     *)
(* cascade_deletion_service.py) with its batch caller (apps/api/app/api/   *)
(* routes/admin_deletion.py) and its deletion_events rows, and the Plex    *)
(* connection manager (apps/api/app/core/plex_connection.py), as state     *)
(* machines over the shared catalog table media_items, the servers table   *)
(* and the remote Plex library.                                            *)
(***************************************************************************)
EXTENDS Integers, Sequences, FiniteSets, TLC

(***************************************************************************)
(* Bounds of the model.                                                    *)
(***************************************************************************)
\* movies a movie section can hold (rating keys 101 .. 100 + MaxMovies)
MaxMovies == 1
\* episodes a show can hold (rating keys 211 .. 210 + MaxEpisodes)
MaxEpisodes == 1

(***************************************************************************)
(* The remote world: the account's resources, their library sections and   *)
(* the items a section can hold.                                           *)
(***************************************************************************)
Users == {"u1", "u2"}
RunIds == {1, 2}

\* account.resources(): two media servers and one player
Resources == <<1, 2, 3>>

Product(res) == IF res \in {1, 2} THEN "Plex Media Server" ELSE "Plex for iOS"

MovieKeys == 101 .. (100 + MaxMovies)
EpisodeKeys == 211 .. (210 + MaxEpisodes)
RatingKeys == MovieKeys \cup EpisodeKeys

\* server.library.sections() of each resource; the items of a movie section
\* are movies, the items of a show section are shows
LibrarySections(res) ==
    IF res = 1 THEN << [type |-> "movie", title |-> "Movies"],
                       [type |-> "artist", title |-> "Music"] >>
    ELSE IF res = 2 THEN << [type |-> "show", title |-> "TV"] >>
    ELSE << >>

\* the rating keys in ascending order, as a sequence
RECURSIVE SortedSeq(_)
SortedSeq(S) ==
    IF S = {} THEN << >>
    ELSE LET m == CHOOSE x \in S : \A y \in S : x <= y
         IN  << m >> \o SortedSeq(S \ {m})

\* servers.id of the row upserted on (user_id, machine_id)
ServerIdOf(u, res) == << u, res >>

\* the (server_id, plex_id) pairs the catalog can hold: the items of the
\* two servers of u1, and one row of a server of u2
CatalogKeys ==
    { << ServerIdOf("u1", 1), k >> : k \in MovieKeys }
        \cup { << ServerIdOf("u1", 2), k >> : k \in EpisodeKeys }
        \cup { << ServerIdOf("u2", 1), 101 >> }

\* the guids of a remote item: even rating keys carry no cross-reference id
GuidTmdb(k) == IF k % 2 = 1 THEN k + 1000 ELSE 0
GuidTvdb(k) == IF k \in EpisodeKeys /\ k % 2 = 1 THEN k + 2000 ELSE 0

\* the media_data dict the sync writes for a remote item
MediaData(server_id, k) ==
    [server_id |-> server_id,
     plex_id   |-> k,
     type      |-> IF k \in EpisodeKeys THEN "episode" ELSE "movie",
     tmdb_id   |-> GuidTmdb(k),
     tvdb_id   |-> GuidTvdb(k)]

\* the local id of a row that exists before the first run; rows inserted by
\* a run take their id from nextId, which starts below every prior id
PriorId(key) == key[2] + (IF key[1][1] = "u2" THEN 1000 ELSE 0)

PriorRow(key) ==
    [id        |-> PriorId(key),
     server_id |-> key[1],
     plex_id   |-> key[2],
     type      |-> MediaData(key[1], key[2]).type,
     tmdb_id   |-> MediaData(key[1], key[2]).tmdb_id,
     tvdb_id   |-> MediaData(key[1], key[2]).tvdb_id]

RowKey(row) == << row.server_id, row.plex_id >>

(***************************************************************************)
(* State.                                                                  *)
(***************************************************************************)
VARIABLES
    media_items,    \* the catalog table: a set of rows
    nextId,         \* the next id the catalog table generates
    remote,         \* the rating keys present on the Plex servers
    active_syncs,   \* _active_syncs: user -> "absent" | "false" | "true"
    sync,           \* the frames of the sync_library_generator runs
    cas,            \* the frame of the delete_media_item invocation
    batch,          \* the frame of the execute_deletion request
    deletion_rules, \* the deletion_rules table: rule id -> row
    user_stats,     \* the user_stats table: a set of rows
    audit_log,      \* the audit_log table: a sequence of rows
    scan,           \* the frame of the scan request
    deletion_events, \* the deletion_events table: a sequence of rows
    servers,        \* the servers table: machine id -> row
    clock,          \* the time of day of the store and the clients
    conn,           \* the frame of the last connect_to_server call
    runs,           \* the sync runs a client has asked for
    race,           \* the frames of concurrent connect_to_server calls
    ident,          \* a remote item's identifier list and its catalog row
    taut,           \* the frame of the watch-history sync stream
    cancel_reply    \* the answer to the last cancel_sync of each user

vars == << media_items, nextId, remote, active_syncs, sync, cas, batch,
           deletion_rules, user_stats, audit_log, scan, deletion_events,
           servers, clock, conn, runs,
           race, ident, taut, cancel_reply >>

(***************************************************************************)
(* sync_library_generator.  A frame holds the generator's locals; pc is    *)
(* the yield at which the generator is suspended.  The fields prior,       *)
(* observed, removed, unreached, cut_short, errors and cancelled are       *)
(* history fields: they record what the run has done and are never read    *)
(* by the run.                                                             *)
(***************************************************************************)
NoServer == << "none", 0 >>

Event(status, current, total, orphaned) ==
    [status |-> status, current |-> current, total |-> total,
     orphaned_removed |-> orphaned]

\* an event that carries a message only
Msg(status) == Event(status, -1, -1, -1)

IdleRun ==
    [pc |-> "idle", user |-> "none", res |-> 0, server_id |-> NoServer,
     sections |-> << >>, sec |-> 0, items |-> << >>, it |-> 0,
     episodes |-> << >>, ep |-> 0,
     servers_connected |-> 0, total_items |-> 0, synced_items |-> 0,
     synced_plex_ids |-> {}, orphaned_count |-> 0, events |-> << >>,
     prior |-> {}, observed |-> {}, removed |-> {}, unreached |-> {},
     cut_short |-> FALSE, errors |-> FALSE, cancelled |-> FALSE]

\* section.all(): the movies of a movie section, the shows of a show section
SectionAll(section, present) ==
    IF section.type = "movie" THEN SortedSeq(MovieKeys \cap present)
    ELSE << 201 >>

\* show.episodes()
ShowEpisodes(show, present) == SortedSeq(EpisodeKeys \cap present)

RECURSIVE SumLen(_, _)
SumLen(shows, present) ==
    IF shows = << >> THEN 0
    ELSE Len(ShowEpisodes(Head(shows), present)) + SumLen(Tail(shows), present)

\* the count one section adds to total_items
SectionCount(section, present) ==
    IF section.type = "show" THEN SumLen(SectionAll(section, present), present)
    ELSE Cardinality(MovieKeys \cap present)

RECURSIVE CountItems(_, _)
CountItems(sections, present) ==
    IF sections = << >> THEN 0
    ELSE SectionCount(Head(sections), present)
             + CountItems(Tail(sections), present)

IsLibrarySection(section) == section.type \in {"movie", "show"}

\* an upsert that inserts whether or not a row of the pair exists
UpsertAlwaysInserts(rows, data, id) ==
    rows \cup { [id |-> id, server_id |-> data.server_id,
                 plex_id |-> data.plex_id, type |-> data.type,
                 tmdb_id |-> data.tmdb_id, tvdb_id |-> data.tvdb_id] }

\* supabase.table('media_items').upsert(media_data, on_conflict='server_id,plex_id')
Upsert(rows, data, id) ==
    IF \E row \in rows : RowKey(row) = << data.server_id, data.plex_id >>
    THEN { IF RowKey(row) = << data.server_id, data.plex_id >>
           THEN [row EXCEPT !.type = data.type, !.tmdb_id = data.tmdb_id,
                            !.tvdb_id = data.tvdb_id]
           ELSE row : row \in rows }
    ELSE rows \cup { [id |-> id, server_id |-> data.server_id,
                      plex_id |-> data.plex_id, type |-> data.type,
                      tmdb_id |-> data.tmdb_id, tvdb_id |-> data.tvdb_id] }

IsInsert(rows, data) ==
    ~ \E row \in rows : RowKey(row) = << data.server_id, data.plex_id >>

\* the rows the orphan cleanup selects for deletion
OrphanRowsKeyOnly(rows, seen) ==
    { row \in rows : row.plex_id \notin { k[2] : k \in seen } }

OrphanRows(rows, seen) == { row \in rows : RowKey(row) \notin seen }

\* _active_syncs.get(user_id, False)
IsCancelled(u) == active_syncs[u] = "true"

\* no cancel_sync request has been answered
NoReplies == [u \in Users |-> "none"]

\* the frame after the cancellation flag was observed
AfterCancelKeepsGoing(s) ==
    [s EXCEPT !.events = Append(@, Event("cancelled", s.synced_items,
                                              s.total_items, -1)),
              !.cancelled = TRUE,
              !.pc = "cleanup"]

AfterCancel(s) ==
    [s EXCEPT !.events = Append(@, Event("cancelled", s.synced_items,
                                              s.total_items, -1)),
              !.cancelled = TRUE,
              !.pc = "finishing"]

\* the start of the run without the return after "No Plex servers found"
BeginKeepsGoing(r, u) ==
    /\ sync[r].pc = "idle"
    /\ active_syncs' = [active_syncs EXCEPT ![u] = "false"]
    /\ \E out \in {"ok", "empty", "raise"} :
         sync' = [sync EXCEPT ![r] =
            [IdleRun EXCEPT
               !.user = u,
               !.prior = media_items,
               !.res = IF out = "empty" THEN Len(Resources) + 1 ELSE 1,
               !.pc = IF out = "raise" THEN "finishing" ELSE "resource",
               !.events = IF out = "ok" THEN << Msg("connecting") >>
                          ELSE << Msg("connecting"), Msg("error") >>,
               !.errors = (out # "ok")]]
    /\ UNCHANGED << media_items, nextId, remote, cas, batch,
                    deletion_rules, user_stats, audit_log, scan,
                    deletion_events, servers, clock, conn, runs,
                    race, ident, taut, cancel_reply >>

\* the start of the run up to the resource loop
Begin(r, u) ==
    /\ sync[r].pc = "idle"
    /\ active_syncs' = [active_syncs EXCEPT ![u] = "false"]
    /\ \E out \in {"ok", "empty", "raise"} :
         sync' = [sync EXCEPT ![r] =
            [IdleRun EXCEPT
               !.user = u,
               !.prior = media_items,
               !.res = 1,
               !.pc = IF out = "ok" THEN "resource" ELSE "finishing",
               !.events = IF out = "ok" THEN << Msg("connecting") >>
                          ELSE << Msg("connecting"), Msg("error") >>,
               !.errors = (out # "ok")]]
    /\ UNCHANGED << media_items, nextId, remote, cas, batch,
                    deletion_rules, user_stats, audit_log, scan,
                    deletion_events, servers, clock, conn, runs,
                    race, ident, taut, cancel_reply >>

\* the frame after the connection attempt to resource res
Connected(s, res, out, present) ==
    LET t == [s EXCEPT !.events = Append(@, Msg("connecting")),
                       !.res = @ + 1]
        secs == SelectSeq(LibrarySections(res), IsLibrarySection)
        total == s.total_items + CountItems(secs, present)
    IN  CASE out = "none" ->
               [t EXCEPT !.unreached = @ \cup {ServerIdOf(s.user, res)}]
          [] out = "connect_raise" ->
               [t EXCEPT !.unreached = @ \cup {ServerIdOf(s.user, res)},
                         !.errors = TRUE,
                         !.events = Append(@, Msg("warning"))]
          [] out = "no_record" ->
               [t EXCEPT !.servers_connected = @ + 1]
          [] out = "sections_raise" ->
               [t EXCEPT !.servers_connected = @ + 1,
                         !.errors = TRUE,
                         !.cut_short = TRUE,
                         !.events = Append(@, Msg("warning"))]
          [] OTHER ->
               [s EXCEPT !.servers_connected = @ + 1,
                         !.server_id = ServerIdOf(s.user, res),
                         !.sections = secs,
                         !.sec = 1,
                         !.total_items = total,
                         !.events = @ \o << Msg("connecting"),
                                            Msg("counting"),
                                            Event("syncing", 0, total, -1) >>,
                         !.pc = "section"]

\* the connection to a server whose count fell short: seen is the part of
\* the library the count covered, the rest being episodes of a show whose
\* episodes() raised during the count, items of a section whose count
\* raised, or items added to the library after the count
ConnectServerMiscount(r) ==
    /\ sync[r].pc = "resource"
    /\ sync[r].res <= Len(Resources)
    /\ Product(Resources[sync[r].res]) = "Plex Media Server"
    /\ \E seen \in (SUBSET remote) \ {remote} :
         sync' = [sync EXCEPT ![r] =
                     Connected(sync[r], Resources[sync[r].res], "ok", seen)]
    /\ UNCHANGED << media_items, nextId, remote, active_syncs, cas, batch,
                    deletion_rules, user_stats, audit_log, scan,
                    deletion_events, servers, clock, conn, runs,
                    race, ident, taut, cancel_reply >>

\* the seconds a run can have taken when it computes an ETA
MaxElapsed == 2

\* int(x) for the quotient of a by b > 0: rounding toward zero
IntQuotient(a, b) == IF a >= 0 THEN a \div b ELSE - ((- a) \div b)

\* eta_seconds: items_per_second is synced_items / elapsed_seconds, or 0
\* when no time has passed
EtaSeconds(total_items, synced_items, elapsed_seconds) ==
    IF elapsed_seconds > 0 /\ synced_items > 0
    THEN IntQuotient((total_items - synced_items) * elapsed_seconds,
                     synced_items)
    ELSE 0

SkipResource(r) ==
    /\ sync[r].pc = "resource"
    /\ sync[r].res <= Len(Resources)
    /\ Product(Resources[sync[r].res]) # "Plex Media Server"
    /\ sync' = [sync EXCEPT ![r].res = @ + 1]
    /\ UNCHANGED << media_items, nextId, remote, active_syncs, cas, batch,
                    deletion_rules, user_stats, audit_log, scan,
                    deletion_events, servers, clock, conn, runs,
                    race, ident, taut, cancel_reply >>

ConnectServer(r) ==
    /\ sync[r].pc = "resource"
    /\ sync[r].res <= Len(Resources)
    /\ Product(Resources[sync[r].res]) = "Plex Media Server"
    /\ \E out \in {"ok", "none", "connect_raise", "no_record", "sections_raise"} :
         sync' = [sync EXCEPT ![r] =
                     Connected(sync[r], Resources[sync[r].res], out, remote)]
    /\ UNCHANGED << media_items, nextId, remote, active_syncs, cas, batch,
                    deletion_rules, user_stats, audit_log, scan,
                    deletion_events, servers, clock, conn, runs,
                    race, ident, taut, cancel_reply >>

ResourcesDone(r) ==
    /\ sync[r].pc = "resource"
    /\ sync[r].res > Len(Resources)
    /\ sync' = [sync EXCEPT ![r].pc = "cleanup",
                            ![r].events = Append(@, Msg("syncing"))]
    /\ UNCHANGED << media_items, nextId, remote, active_syncs, cas, batch,
                    deletion_rules, user_stats, audit_log, scan,
                    deletion_events, servers, clock, conn, runs,
                    race, ident, taut, cancel_reply >>

SectionStart(r) ==
    LET s == sync[r]
    IN  /\ s.pc = "section"
        /\ s.sec <= Len(s.sections)
        /\ \E out \in {"ok", "raise"} :
             sync' = [sync EXCEPT ![r] =
                IF out = "ok"
                THEN [s EXCEPT !.items = SectionAll(s.sections[s.sec], remote),
                               !.it = 1,
                               !.pc = "item"]
                ELSE [s EXCEPT !.sec = @ + 1,
                               !.errors = TRUE,
                               !.cut_short = TRUE,
                               !.events = Append(@, Msg("warning"))]]
        /\ UNCHANGED << media_items, nextId, remote, active_syncs, cas, batch,
                        deletion_rules, user_stats, audit_log, scan,
                        deletion_events, servers, clock, conn, runs,
                        race, ident, taut, cancel_reply >>

SectionsDone(r) ==
    /\ sync[r].pc = "section"
    /\ sync[r].sec > Len(sync[r].sections)
    /\ sync' = [sync EXCEPT ![r].pc = "resource", ![r].res = @ + 1]
    /\ UNCHANGED << media_items, nextId, remote, active_syncs, cas, batch,
                    deletion_rules, user_stats, audit_log, scan,
                    deletion_events, servers, clock, conn, runs,
                    race, ident, taut, cancel_reply >>

\* the frame after one leaf item (a movie, or an episode of a show) was
\* processed: out is what processing met
Processed(s, k, out) ==
    LET t == [s EXCEPT !.synced_items = @ + 1,
                       !.observed = @ \cup {<< s.server_id, k >>}]
        progress == Event("syncing", t.synced_items, t.total_items, -1)
    IN  CASE out = "ok" ->
               [t EXCEPT !.synced_plex_ids = @ \cup {<< s.server_id, k >>},
                         !.events = Append(@, progress)]
          [] out = "upsert_fail" ->
               [t EXCEPT !.errors = TRUE,
                         !.events = Append(@, progress)]
          [] OTHER ->
               [t EXCEPT !.errors = TRUE]

\* the between-item check of the section loop found the flag set
CancelAtItem(r) ==
    LET s == sync[r]
    IN  /\ s.pc = "item"
        /\ s.it <= Len(s.items)
        /\ IsCancelled(s.user)
        /\ sync' = [sync EXCEPT ![r] = AfterCancel(s)]
        /\ UNCHANGED << media_items, nextId, remote, active_syncs, cas, batch,
                        deletion_rules, user_stats, audit_log, scan,
                        deletion_events, servers, clock, conn, runs,
                        race, ident, taut, cancel_reply >>

\* the movie branch without the between-item check before it
MovieStepUnchecked(r) ==
    LET s == sync[r]
        k == s.items[s.it]
        data == MediaData(s.server_id, k)
    IN  /\ s.pc = "item"
        /\ s.it <= Len(s.items)
        /\ s.sections[s.sec].type # "show"
        /\ \E out \in {"ok", "upsert_fail", "raise"} :
             /\ sync' = [sync EXCEPT ![r] =
                   IF out = "raise"
                   THEN [Processed(s, k, out) EXCEPT
                            !.pc = "section",
                            !.sec = @ + 1,
                            !.cut_short = TRUE,
                            !.events = Append(@, Msg("warning"))]
                   ELSE [Processed(s, k, out) EXCEPT !.it = @ + 1]]
             /\ media_items' = IF out = "ok"
                               THEN Upsert(media_items, data, nextId)
                               ELSE media_items
             /\ nextId' = IF out = "ok" /\ IsInsert(media_items, data)
                          THEN nextId + 1 ELSE nextId
        /\ UNCHANGED << remote, active_syncs, cas, batch,
                        deletion_rules, user_stats, audit_log, scan,
                        deletion_events, servers, clock, conn, runs,
                        race, ident, taut, cancel_reply >>

\* one movie of a movie section
MovieStep(r) ==
    LET s == sync[r]
        k == s.items[s.it]
        data == MediaData(s.server_id, k)
    IN  /\ s.pc = "item"
        /\ s.it <= Len(s.items)
        /\ ~ IsCancelled(s.user)
        /\ s.sections[s.sec].type # "show"
        /\ \E out \in {"ok", "upsert_fail", "raise"} :
             /\ sync' = [sync EXCEPT ![r] =
                   IF out = "raise"
                   THEN [Processed(s, k, out) EXCEPT
                            !.pc = "section",
                            !.sec = @ + 1,
                            !.cut_short = TRUE,
                            !.events = Append(@, Msg("warning"))]
                   ELSE [Processed(s, k, out) EXCEPT !.it = @ + 1]]
             /\ media_items' = IF out = "ok"
                               THEN Upsert(media_items, data, nextId)
                               ELSE media_items
             /\ nextId' = IF out = "ok" /\ IsInsert(media_items, data)
                          THEN nextId + 1 ELSE nextId
        /\ UNCHANGED << remote, active_syncs, cas, batch,
                        deletion_rules, user_stats, audit_log, scan,
                        deletion_events, servers, clock, conn, runs,
                        race, ident, taut, cancel_reply >>

ShowStep(r) ==
    LET s == sync[r]
    IN  /\ s.pc = "item"
        /\ s.it <= Len(s.items)
        /\ ~ IsCancelled(s.user)
        /\ s.sections[s.sec].type = "show"
        /\ \E out \in {"ok", "raise"} :
             sync' = [sync EXCEPT ![r] =
                IF out = "ok"
                THEN [s EXCEPT !.episodes = ShowEpisodes(s.items[s.it], remote),
                               !.ep = 1,
                               !.pc = "episode"]
                ELSE [s EXCEPT !.it = @ + 1, !.errors = TRUE]]
        /\ UNCHANGED << media_items, nextId, remote, active_syncs, cas, batch,
                        deletion_rules, user_stats, audit_log, scan,
                        deletion_events, servers, clock, conn, runs,
                        race, ident, taut, cancel_reply >>

ItemsDone(r) ==
    /\ sync[r].pc = "item"
    /\ sync[r].it > Len(sync[r].items)
    /\ sync' = [sync EXCEPT ![r].pc = "section", ![r].sec = @ + 1]
    /\ UNCHANGED << media_items, nextId, remote, active_syncs, cas, batch,
                    deletion_rules, user_stats, audit_log, scan,
                    deletion_events, servers, clock, conn, runs,
                    race, ident, taut, cancel_reply >>

\* the between-item check of the episode loop found the flag set
CancelAtEpisode(r) ==
    LET s == sync[r]
    IN  /\ s.pc = "episode"
        /\ s.ep <= Len(s.episodes)
        /\ IsCancelled(s.user)
        /\ sync' = [sync EXCEPT ![r] = AfterCancel(s)]
        /\ UNCHANGED << media_items, nextId, remote, active_syncs, cas, batch,
                        deletion_rules, user_stats, audit_log, scan,
                        deletion_events, servers, clock, conn, runs,
                        race, ident, taut, cancel_reply >>

EpisodeStep(r) ==
    LET s == sync[r]
        k == s.episodes[s.ep]
        data == MediaData(s.server_id, k)
    IN  /\ s.pc = "episode"
        /\ s.ep <= Len(s.episodes)
        /\ ~ IsCancelled(s.user)
        /\ \E out \in {"ok", "upsert_fail", "raise"} :
             /\ sync' = [sync EXCEPT ![r] =
                   IF out = "raise"
                   THEN [Processed(s, k, out) EXCEPT !.pc = "item",
                                                     !.it = @ + 1]
                   ELSE [Processed(s, k, out) EXCEPT !.ep = @ + 1]]
             /\ media_items' = IF out = "ok"
                               THEN Upsert(media_items, data, nextId)
                               ELSE media_items
             /\ nextId' = IF out = "ok" /\ IsInsert(media_items, data)
                          THEN nextId + 1 ELSE nextId
        /\ UNCHANGED << remote, active_syncs, cas, batch,
                        deletion_rules, user_stats, audit_log, scan,
                        deletion_events, servers, clock, conn, runs,
                        race, ident, taut, cancel_reply >>

EpisodesDone(r) ==
    /\ sync[r].pc = "episode"
    /\ sync[r].ep > Len(sync[r].episodes)
    /\ sync' = [sync EXCEPT ![r].pc = "item", ![r].it = @ + 1]
    /\ UNCHANGED << media_items, nextId, remote, active_syncs, cas, batch,
                    deletion_rules, user_stats, audit_log, scan,
                    deletion_events, servers, clock, conn, runs,
                    race, ident, taut, cancel_reply >>

\* the orphan cleanup and the complete event; failed are the rows whose
\* delete raised
Cleanup(r) ==
    LET s == sync[r]
        orphans == OrphanRows(media_items, s.synced_plex_ids)
    IN  /\ s.pc = "cleanup"
        /\ \E failed \in SUBSET orphans :
             /\ media_items' = media_items \ (orphans \ failed)
             /\ sync' = [sync EXCEPT ![r] =
                   [s EXCEPT !.orphaned_count = Cardinality(orphans \ failed),
                             !.removed = orphans \ failed,
                             !.errors = @ \/ failed # {},
                             !.events = Append(@,
                                 Event("complete", s.synced_items, s.total_items,
                                       Cardinality(orphans \ failed))),
                             !.pc = "finishing"]]
        /\ UNCHANGED << nextId, remote, active_syncs, cas, batch,
                        deletion_rules, user_stats, audit_log, scan,
                        deletion_events, servers, clock, conn, runs,
                        race, ident, taut, cancel_reply >>

\* the select of the orphan cleanup raised: nothing is deleted
CleanupSelectFails(r) ==
    LET s == sync[r]
    IN  /\ s.pc = "cleanup"
        /\ sync' = [sync EXCEPT ![r] =
              [s EXCEPT !.errors = TRUE,
                        !.events = Append(@,
                            Event("complete", s.synced_items, s.total_items, 0)),
                        !.pc = "finishing"]]
        /\ UNCHANGED << media_items, nextId, remote, active_syncs, cas, batch,
                        deletion_rules, user_stats, audit_log, scan,
                        deletion_events, servers, clock, conn, runs,
                        race, ident, taut, cancel_reply >>

\* the finally block
Finish(r) ==
    /\ sync[r].pc = "finishing"
    /\ sync' = [sync EXCEPT ![r].pc = "done"]
    /\ active_syncs' = [active_syncs EXCEPT ![sync[r].user] = "absent"]
    /\ UNCHANGED << media_items, nextId, remote, cas, batch,
                    deletion_rules, user_stats, audit_log, scan,
                    deletion_events, servers, clock, conn, runs,
                    race, ident, taut, cancel_reply >>

\* cancel_sync for a user in the registry
CancelSync(u) ==
    /\ active_syncs[u] # "absent"
    /\ active_syncs' = [active_syncs EXCEPT ![u] = "true"]
    /\ cancel_reply' = [cancel_reply EXCEPT ![u] = "requested"]
    /\ UNCHANGED << media_items, nextId, remote, sync, cas, batch,
                    deletion_rules, user_stats, audit_log, scan,
                    deletion_events, servers, clock, conn, runs,
                    race, ident, taut >>

\* cancel_sync that enters the user in the registry when it is absent
CancelSyncNoRunSetsFlag(u) ==
    /\ active_syncs[u] = "absent"
    /\ active_syncs' = [active_syncs EXCEPT ![u] = "true"]
    /\ cancel_reply' = [cancel_reply EXCEPT ![u] = "no_active"]
    /\ UNCHANGED << media_items, nextId, remote, sync, cas, batch,
                    deletion_rules, user_stats, audit_log, scan,
                    deletion_events, servers, clock, conn, runs,
                    race, ident, taut >>

\* cancel_sync for a user who is not in the registry: the answer is "No
\* active sync found" and the registry is left alone
CancelSyncNoRun(u) ==
    /\ active_syncs[u] = "absent"
    /\ cancel_reply' = [cancel_reply EXCEPT ![u] = "no_active"]
    /\ UNCHANGED << media_items, nextId, remote, active_syncs, sync, cas,
                    batch, deletion_rules, user_stats, audit_log, scan,
                    deletion_events, servers, clock, conn, runs,
                    race, ident, taut >>

(***************************************************************************)
(* CascadeDeletionService.  A step function takes the media item, the      *)
(* dry_run flag and env, what the store and the external system answer,    *)
(* and returns the dict of the step with the calls it issued.  A dict is   *)
(* a record that holds exactly the keys the code puts in it.               *)
(***************************************************************************)
\* requests the request broker can hold for one media entry
MaxRequests == 2

ShowTypes == {"show", "season", "episode"}

Types == ShowTypes \cup {"movie"}

PlexEnvs == {"no_server", "no_token", "connect_raise", "no_resource",
             "connect_none", "fetch_error", "delete_error", "ok"}

\* CascadeDeletionService._delete_from_plex without the dry_run return
DeleteFromPlexNoDryRun(item, dry_run, env, present) ==
    LET fail(msg, calls, fetch) ==
            [result |-> [success |-> FALSE, error |-> msg],
             calls |-> calls, fetch |-> fetch, deleted |-> FALSE]
    IN  CASE env = "no_server" -> fail("Server not found", << >>, "none")
          [] env = "no_token" -> fail("No Plex token found", << >>, "none")
          [] env = "connect_raise" ->
               fail("exception", << "plex.connect" >>, "none")
          [] env = "no_resource" ->
               fail("Could not connect to Plex server",
                    << "myplex.resources" >>, "none")
          [] env = "connect_none" ->
               fail("Plex API error", << "myplex.resources", "plex.connect" >>,
                    "none")
          [] env = "fetch_error" ->
               fail("Plex API error", << "plex.connect", "plex.fetch" >>, "error")
          [] item.plex_id \notin present ->
               fail("Plex API error", << "plex.connect", "plex.fetch" >>,
                    "notfound")
          [] env = "delete_error" ->
               fail("Plex API error",
                    << "plex.connect", "plex.fetch", "plex.delete" >>, "found")
          [] OTHER ->
               [result |-> [success |-> TRUE,
                            message |-> "Deleted from Plex library"],
                calls |-> << "plex.connect", "plex.fetch", "plex.delete" >>,
                fetch |-> "found", deleted |-> TRUE]

\* CascadeDeletionService._delete_from_plex: fetch is what fetchItem met,
\* deleted whether item.delete() removed the item from the server
DeleteFromPlex(item, dry_run, env, present) ==
    LET fail(msg, calls, fetch) ==
            [result |-> [success |-> FALSE, error |-> msg],
             calls |-> calls, fetch |-> fetch, deleted |-> FALSE]
    IN  CASE env = "no_server" -> fail("Server not found", << >>, "none")
          [] env = "no_token" -> fail("No Plex token found", << >>, "none")
          [] dry_run ->
               [result |-> [success |-> TRUE, message |-> "Would delete",
                            dry_run |-> TRUE],
                calls |-> << >>, fetch |-> "none", deleted |-> FALSE]
          [] env = "connect_raise" ->
               fail("exception", << "plex.connect" >>, "none")
          [] env = "no_resource" ->
               fail("Could not connect to Plex server",
                    << "myplex.resources" >>, "none")
          [] env = "connect_none" ->
               fail("Plex API error", << "myplex.resources", "plex.connect" >>,
                    "none")
          [] env = "fetch_error" ->
               fail("Plex API error", << "plex.connect", "plex.fetch" >>, "error")
          [] item.plex_id \notin present ->
               fail("Plex API error", << "plex.connect", "plex.fetch" >>,
                    "notfound")
          [] env = "delete_error" ->
               fail("Plex API error",
                    << "plex.connect", "plex.fetch", "plex.delete" >>, "found")
          [] OTHER ->
               [result |-> [success |-> TRUE,
                            message |-> "Deleted from Plex library"],
                calls |-> << "plex.connect", "plex.fetch", "plex.delete" >>,
                fetch |-> "found", deleted |-> TRUE]

ArrEnvs == {"db_error", "no_integration", "lookup_raise", "lookup_error",
            "not_found", "delete_raise", "delete_failed", "deleted"}

\* the step of a download manager that looks the item up whether or not it
\* carries the cross-reference id
DeleteFromArrNoGate(name, xref, dry_run, env) ==
    LET get == name \o ".get"
        del == name \o ".delete"
        fail(msg, calls) ==
            [result |-> [success |-> FALSE, error |-> msg], calls |-> calls]
        skip(msg, calls) ==
            [result |-> [success |-> TRUE, message |-> msg, skipped |-> TRUE],
             calls |-> calls]
    IN  CASE env = "db_error" -> fail("exception", << >>)
          [] env = "no_integration" -> skip("No integration", << >>)
          [] dry_run ->
               [result |-> [success |-> TRUE, message |-> "Would remove",
                            dry_run |-> TRUE],
                calls |-> << >>]
          [] env = "lookup_raise" -> fail("exception", << get >>)
          [] env = "lookup_error" -> fail("API error", << get >>)
          [] env = "not_found" -> skip("Not found", << get >>)
          [] env = "delete_raise" -> fail("exception", << get, del >>)
          [] env = "delete_failed" -> fail("delete failed", << get, del >>)
          [] OTHER ->
               [result |-> [success |-> TRUE, message |-> "Removed"],
                calls |-> << get, del >>]

\* the steps of the two download managers share their shape: _delete_from_sonarr
\* looks the series up by tvdb_id, _delete_from_radarr the movie by tmdb_id;
\* name is the manager, xref the cross-reference id of the item
DeleteFromArr(name, xref, dry_run, env) ==
    LET get == name \o ".get"
        del == name \o ".delete"
        fail(msg, calls) ==
            [result |-> [success |-> FALSE, error |-> msg], calls |-> calls]
        skip(msg, calls) ==
            [result |-> [success |-> TRUE, message |-> msg, skipped |-> TRUE],
             calls |-> calls]
    IN  CASE env = "db_error" -> fail("exception", << >>)
          [] env = "no_integration" -> skip("No integration", << >>)
          [] xref = 0 -> skip("No cross-reference id", << >>)
          [] dry_run ->
               [result |-> [success |-> TRUE, message |-> "Would remove",
                            dry_run |-> TRUE],
                calls |-> << >>]
          [] env = "lookup_raise" -> fail("exception", << get >>)
          [] env = "lookup_error" -> fail("API error", << get >>)
          [] env = "not_found" -> skip("Not found", << get >>)
          [] env = "delete_raise" -> fail("exception", << get, del >>)
          [] env = "delete_failed" -> fail("delete failed", << get, del >>)
          [] OTHER ->
               [result |-> [success |-> TRUE, message |-> "Removed"],
                calls |-> << get, del >>]

DeleteFromSonarr(item, dry_run, env) ==
    DeleteFromArr("sonarr", item.tvdb_id, dry_run, env)

DeleteFromRadarr(item, dry_run, env) ==
    DeleteFromArr("radarr", item.tmdb_id, dry_run, env)

\* lookup_status is an answer of the media lookup with an error status,
\* lookup_notfound its answer 404
OverseerrEnvs == {"db_error", "no_integration", "lookup_raise", "lookup_status",
                  "lookup_notfound", "no_requests", "requests"}

\* what the delete of one request can meet
DeleteOutcomes == {"ok", "status", "raise"}

RequestLists ==
    UNION { [1 .. n -> DeleteOutcomes] : n \in 0 .. MaxRequests }

\* the requests up to and including the first whose delete raises
RECURSIVE Attempted(_)
Attempted(reqs) ==
    IF reqs = << >> THEN << >>
    ELSE IF Head(reqs) = "raise" THEN << Head(reqs) >>
    ELSE << Head(reqs) >> \o Attempted(Tail(reqs))

RECURSIVE CountOk(_)
CountOk(reqs) ==
    IF reqs = << >> THEN 0
    ELSE (IF Head(reqs) = "ok" THEN 1 ELSE 0) + CountOk(Tail(reqs))

HasRaise(reqs) == \E i \in 1 .. Len(reqs) : reqs[i] = "raise"

\* a delete that was sent was answered with an error status
Refused(reqs) ==
    \E i \in 1 .. Len(Attempted(reqs)) : reqs[i] = "status"

\* CascadeDeletionService._delete_from_overseerr; reqs are the requests of
\* the media entry, each with what its delete meets
DeleteFromOverseerr(item, dry_run, env, reqs) ==
    LET fail(msg, calls) ==
            [result |-> [success |-> FALSE, error |-> msg], calls |-> calls]
        skip(msg, calls) ==
            [result |-> [success |-> TRUE, message |-> msg, skipped |-> TRUE],
             calls |-> calls]
        dels == [i \in 1 .. Len(Attempted(reqs)) |-> "overseerr.delete"]
    IN  CASE env = "db_error" -> fail("exception", << >>)
          [] env = "no_integration" -> skip("No Overseerr integration", << >>)
          [] item.tmdb_id = 0 -> skip("No TMDB ID", << >>)
          [] dry_run ->
               [result |-> [success |-> TRUE, message |-> "Would remove",
                            dry_run |-> TRUE],
                calls |-> << >>]
          [] env = "lookup_raise" -> fail("exception", << "overseerr.get" >>)
          [] env \in {"lookup_status", "lookup_notfound"} ->
               skip("Not in Overseerr", << "overseerr.get" >>)
          [] env = "no_requests" ->
               skip("No requests found", << "overseerr.get" >>)
          [] HasRaise(reqs) ->
               fail("exception", << "overseerr.get" >> \o dels)
          [] CountOk(reqs) > 0 ->
               [result |-> [success |-> TRUE, message |-> "Removed requests"],
                calls |-> << "overseerr.get" >> \o dels]
          [] OTHER ->
               skip("No requests to remove", << "overseerr.get" >> \o dels)

\* the results dict as delete_media_item builds it before the first step
DefaultResults ==
    [plex      |-> [success |-> FALSE, error |-> "none"],
     sonarr    |-> [success |-> FALSE, error |-> "none", skipped |-> TRUE],
     radarr    |-> [success |-> FALSE, error |-> "none", skipped |-> TRUE],
     overseerr |-> [success |-> FALSE, error |-> "none", skipped |-> TRUE],
     overall_status |-> "failed"]

HasKey(d, key) == key \in DOMAIN d

\* "Determine overall status": a lookup of a key the dict does not hold
\* raises KeyError; `or` and `and` evaluate their right operand only when
\* the left one does not decide
OverallStatus(results) ==
    IF ~ HasKey(results.sonarr, "skipped") THEN "KeyError"
    ELSE LET sonarr_ok == results.sonarr.skipped \/ results.sonarr.success
         IN  IF sonarr_ok /\ ~ HasKey(results.radarr, "skipped") THEN "KeyError"
             ELSE IF ~ HasKey(results.overseerr, "skipped") THEN "KeyError"
             ELSE LET arr_success ==
                          sonarr_ok /\ (results.radarr.skipped
                                           \/ results.radarr.success)
                      overseerr_success ==
                          results.overseerr.skipped \/ results.overseerr.success
                  IN  IF results.plex.success /\ arr_success /\ overseerr_success
                      THEN "completed"
                      ELSE IF results.plex.success THEN "partial"
                      ELSE "failed"

\* the media item dicts a caller can pass
CascadeItems ==
    { [id |-> k,
       server_id |-> ServerIdOf("u1", IF k \in MovieKeys THEN 1 ELSE 2),
       plex_id |-> k, type |-> ty, tmdb_id |-> tm, tvdb_id |-> tv] :
      k \in RatingKeys, ty \in Types, tm \in {0, 7}, tv \in {0, 9} }

\* the frame of delete_media_item.  fetch, sonarr_env, lookup, refused and
\* remote0 are history fields: what fetchItem met, what the Sonarr step
\* met, what the media lookup of the Overseerr step was answered ("none"
\* when the step made no lookup), whether a delete of a request was
\* answered with an error status, and the remote library when the
\* invocation began.
CasIdle ==
    [pc |-> "idle", caller |-> "none", item |-> PriorRow(<< NoServer, 0 >>),
     dry_run |-> FALSE, event_id |-> 0, results |-> DefaultResults,
     calls |-> << >>, fetch |-> "none", sonarr_env |-> "none",
     lookup |-> "none", refused |-> FALSE,
     error |-> "none", remote0 |-> {}]

\* deletion_events rows the model keeps
MaxEvents == 2

\* the deletion_event dict delete_media_item inserts
EventRow(item, dry_run) ==
    [media_item_id |-> item.id, dry_run |-> dry_run, status |-> "pending",
     deleted_from_plex |-> FALSE, deleted_from_sonarr |-> FALSE,
     deleted_from_radarr |-> FALSE, deleted_from_overseerr |-> FALSE]

\* table("deletion_events").insert(deletion_event): the id of a row is its
\* place in the table; an insert that raises adds no row
InsertEvent(events, item, dry_run, ins) ==
    IF ins = "raise" THEN events ELSE Append(events, EventRow(item, dry_run))

\* table("deletion_events").update({field: value}).eq("id", event_id)
UpdateEvent(events, event_id, field, value) ==
    [events EXCEPT ![event_id] = [@ EXCEPT ![field] = value]]

\* the update after a step: made when the step succeeded and the insert
\* returned the id; upd is what the update meets
StepUpdate(events, event_id, result, field, upd) ==
    IF result.success /\ event_id # 0 /\ upd = "ok"
    THEN UpdateEvent(events, event_id, field, TRUE)
    ELSE events

\* results[step]["error"] = str(e) in the except clause of a step
WithError(d) ==
    [k \in DOMAIN d \cup {"error"} |->
        IF k = "error" THEN "update failed" ELSE d[k]]

\* the dict of a step after the step and its update
StepResult(event_id, result, upd) ==
    IF result.success /\ event_id # 0 /\ upd = "raise"
    THEN WithError(result) ELSE result

\* delete_media_item up to its first step: the insert of the deletion event
\* (ins is what the insert meets; events is the table before it) and the
\* default results
StartFrame(item, dry_run, caller, ins, present, events) ==
    [CasIdle EXCEPT
        !.pc = IF ins = "raise" THEN "raised" ELSE "plex",
        !.caller = caller,
        !.item = item,
        !.dry_run = dry_run,
        !.event_id = IF ins = "ok" THEN Len(events) + 1 ELSE 0,
        !.calls = << "deletion_events.insert" >>,
        !.error = IF ins = "raise" THEN "insert" ELSE "none",
        !.remote0 = present]

\* the frame of execute_deletion
\* issued is a history field: the dry_run argument of every call of
\* delete_media_item the request has made.  given says whether the request
\* carried candidate_ids (a list, as opposed to None), candidate_ids is the
\* list.
BatchIdle ==
    [pc |-> "idle", rule_id |-> 0, scanned |-> FALSE,
     given |-> FALSE, candidate_ids |-> << >>,
     candidates |-> << >>, idx |-> 0, dry_run |-> FALSE,
     deleted_count |-> 0, failed_count |-> 0, details |-> 0,
     issued |-> << >>, error |-> "none"]

\* the parameters of delete_media_item and the keywords execute_deletion
\* passes; a keyword that is no parameter makes the call raise TypeError
DeleteMediaItemParams ==
    {"media_item", "user_id", "deletion_rule_id", "deletion_reason", "dry_run"}

ExecuteDeletionKeywords ==
    {"media_item", "user_id", "deletion_rule_id", "deletion_reason", "dry_run",
     "plex_token"}

CallAccepted(keywords) == keywords \subseteq DeleteMediaItemParams

\* the counts of execute_deletion after one candidate: outcome is the
\* overall_status of the cascade, or "exception"
Counted(b, outcome) ==
    [b EXCEPT !.deleted_count = IF outcome \in {"completed", "partial"}
                                THEN @ + 1 ELSE @,
              !.failed_count = IF outcome \in {"completed", "partial"}
                               THEN @ ELSE @ + 1,
              !.details = @ + 1,
              !.idx = @ + 1,
              !.pc = "loop"]

\* a caller other than execute_deletion invokes delete_media_item on one
\* of items
InvokeDelete(items) ==
    /\ cas.pc = "idle"
    /\ batch.pc = "idle"
    /\ Len(deletion_events) < MaxEvents
    /\ \E item \in items, dry_run \in BOOLEAN,
          ins \in {"ok", "nodata", "raise"} :
         /\ cas' = StartFrame(item, dry_run, "direct", ins, remote,
                              deletion_events)
         /\ deletion_events' = InsertEvent(deletion_events, item, dry_run, ins)
    /\ UNCHANGED << media_items, nextId, remote, active_syncs, sync, batch,
                    deletion_rules, user_stats, audit_log, scan,
                    servers, clock, conn, runs,
                    race, ident, taut, cancel_reply >>

\* the steps of delete_media_item; upds is what the update of the deletion
\* event after a step can meet
PlexStep(upds) ==
    /\ cas.pc = "plex"
    /\ \E env \in PlexEnvs, upd \in upds :
         LET out == DeleteFromPlex(cas.item, cas.dry_run, env, remote)
         IN  /\ cas' = [cas EXCEPT
                   !.results = [@ EXCEPT
                      !.plex = StepResult(cas.event_id, out.result, upd)],
                   !.calls = @ \o << "_delete_from_plex" >> \o out.calls,
                   !.fetch = out.fetch,
                   !.pc = "sonarr"]
             /\ remote' = IF out.deleted THEN remote \ {cas.item.plex_id}
                          ELSE remote
             /\ deletion_events' =
                   StepUpdate(deletion_events, cas.event_id, out.result,
                              "deleted_from_plex", upd)
    /\ UNCHANGED << media_items, nextId, active_syncs, sync, batch,
                    deletion_rules, user_stats, audit_log, scan,
                    servers, clock, conn, runs,
                    race, ident, taut, cancel_reply >>

SonarrStep(upds) ==
    /\ cas.pc = "sonarr"
    /\ \/ /\ cas.item.type \notin ShowTypes
          /\ cas' = [cas EXCEPT !.pc = "radarr"]
          /\ UNCHANGED deletion_events
       \/ /\ cas.item.type \in ShowTypes
          /\ \E env \in ArrEnvs, upd \in upds :
               LET out == DeleteFromSonarr(cas.item, cas.dry_run, env)
               IN  /\ cas' = [cas EXCEPT
                         !.results = [@ EXCEPT
                            !.sonarr = StepResult(cas.event_id, out.result, upd)],
                         !.calls = @ \o << "_delete_from_sonarr" >> \o out.calls,
                         !.sonarr_env = env,
                         !.pc = "radarr"]
                   /\ deletion_events' =
                         StepUpdate(deletion_events, cas.event_id, out.result,
                                    "deleted_from_sonarr", upd)
    /\ UNCHANGED << media_items, nextId, remote, active_syncs, sync, batch,
                    deletion_rules, user_stats, audit_log, scan,
                    servers, clock, conn, runs,
                    race, ident, taut, cancel_reply >>

RadarrStep(upds) ==
    /\ cas.pc = "radarr"
    /\ \/ /\ cas.item.type # "movie"
          /\ cas' = [cas EXCEPT !.pc = "overseerr"]
          /\ UNCHANGED deletion_events
       \/ /\ cas.item.type = "movie"
          /\ \E env \in ArrEnvs, upd \in upds :
               LET out == DeleteFromRadarr(cas.item, cas.dry_run, env)
               IN  /\ cas' = [cas EXCEPT
                         !.results = [@ EXCEPT
                            !.radarr = StepResult(cas.event_id, out.result, upd)],
                         !.calls = @ \o << "_delete_from_radarr" >> \o out.calls,
                         !.pc = "overseerr"]
                   /\ deletion_events' =
                         StepUpdate(deletion_events, cas.event_id, out.result,
                                    "deleted_from_radarr", upd)
    /\ UNCHANGED << media_items, nextId, remote, active_syncs, sync, batch,
                    deletion_rules, user_stats, audit_log, scan,
                    servers, clock, conn, runs,
                    race, ident, taut, cancel_reply >>

OverseerrStep(upds) ==
    /\ cas.pc = "overseerr"
    /\ \E env \in OverseerrEnvs, upd \in upds :
         \E reqs \in IF env = "requests" THEN RequestLists ELSE {<< >>} :
            LET out == DeleteFromOverseerr(cas.item, cas.dry_run, env, reqs)
            IN  /\ cas' = [cas EXCEPT
                      !.results = [@ EXCEPT
                         !.overseerr = StepResult(cas.event_id, out.result, upd)],
                      !.calls = @ \o << "_delete_from_overseerr" >> \o out.calls,
                      !.lookup = IF out.calls = << >> THEN "none" ELSE env,
                      !.refused = Len(out.calls) > 1 /\ Refused(reqs),
                      !.pc = "aggregate"]
                /\ deletion_events' =
                      StepUpdate(deletion_events, cas.event_id, out.result,
                                 "deleted_from_overseerr", upd)
    /\ UNCHANGED << media_items, nextId, remote, active_syncs, sync, batch,
                    deletion_rules, user_stats, audit_log, scan,
                    servers, clock, conn, runs,
                    race, ident, taut, cancel_reply >>

\* the aggregation whose final update selects the rows by media_item_id
AggregateStampsItem(fins) ==
    LET st == OverallStatus(cas.results)
    IN  /\ cas.pc = "aggregate"
        /\ \E fin \in fins :
             LET raised == IF st = "KeyError" THEN "KeyError"
                           ELSE IF cas.event_id = 0 \/ fin = "ok" THEN "none"
                           ELSE fin
                 written == st # "KeyError" /\ cas.event_id # 0
                               /\ fin # "update_raise"
             IN  /\ cas' = IF raised # "none"
                           THEN [cas EXCEPT
                                    !.pc = "raised",
                                    !.error = raised,
                                    !.results = IF st = "KeyError" THEN @
                                                ELSE [@ EXCEPT
                                                        !.overall_status = st]]
                           ELSE [cas EXCEPT
                                    !.pc = "returned",
                                    !.results = [@ EXCEPT !.overall_status = st]]
                 /\ deletion_events' =
                       IF written
                       THEN [e \in DOMAIN deletion_events |->
                               IF deletion_events[e].media_item_id = cas.item.id
                               THEN [deletion_events[e] EXCEPT !.status = st]
                               ELSE deletion_events[e]]
                       ELSE deletion_events
                 /\ batch' = IF cas.caller = "execute"
                             THEN Counted(batch, IF raised # "none"
                                                 THEN "exception" ELSE st)
                             ELSE batch
        /\ UNCHANGED << media_items, nextId, remote, active_syncs, sync,
                        deletion_rules, user_stats, audit_log, scan,
                        servers, clock, conn, runs,
                        race, ident, taut, cancel_reply >>

\* the aggregation, the final update of the event, the activity log row
\* and the return to the caller; a KeyError, a failed update (the row keeps
\* its status) and a failed log insert leave delete_media_item as an
\* exception; fins is what the update and the log insert can meet
Aggregate(fins) ==
    LET st == OverallStatus(cas.results)
    IN  /\ cas.pc = "aggregate"
        /\ \E fin \in fins :
             LET raised == IF st = "KeyError" THEN "KeyError"
                           ELSE IF cas.event_id = 0 \/ fin = "ok" THEN "none"
                           ELSE fin
                 written == st # "KeyError" /\ cas.event_id # 0
                               /\ fin # "update_raise"
             IN  /\ cas' = IF raised # "none"
                           THEN [cas EXCEPT
                                    !.pc = "raised",
                                    !.error = raised,
                                    !.results = IF st = "KeyError" THEN @
                                                ELSE [@ EXCEPT
                                                        !.overall_status = st]]
                           ELSE [cas EXCEPT
                                    !.pc = "returned",
                                    !.results = [@ EXCEPT !.overall_status = st]]
                 /\ deletion_events' =
                       IF written
                       THEN UpdateEvent(deletion_events, cas.event_id, "status", st)
                       ELSE deletion_events
                 /\ batch' = IF cas.caller = "execute"
                             THEN Counted(batch, IF raised # "none"
                                                 THEN "exception" ELSE st)
                             ELSE batch
        /\ UNCHANGED << media_items, nextId, remote, active_syncs, sync,
                        deletion_rules, user_stats, audit_log, scan,
                        servers, clock, conn, runs,
                        race, ident, taut, cancel_reply >>

(***************************************************************************)
(* DeletionService.scan_for_candidates.  Times are counted in ticks of a   *)
(* fraction of a day, so that two datetimes of the same day can differ.    *)
(***************************************************************************)
\* the largest number of days a rule can ask for
MaxDays == 2

TicksPerDay == 2

Timedelta(days) == days * TicksPerDay

\* timedelta.days: the whole days of a difference, rounded down
Days(delta) == delta \div TicksPerDay

Times == 0 .. ((MaxDays + 1) * TicksPerDay - 1)

\* datetime.utcnow() at the scan: one tick before the latest timestamp, so
\* that a row can be dated in the future
UtcNow == (MaxDays + 1) * TicksPerDay - 2

\* Python's None for an optional number or timestamp
None == -1

\* dict.get
Get(d, key) == IF key \in DOMAIN d THEN d[key] ELSE None

\* truth value of an optional number: None and 0 are false
Truthy(v) == v # None /\ v # 0

Genres == {"Horror"}

\* a genres value: absent, a list of tags, or a value that is no list
NoGenres == [kind |-> "none", tags |-> {}]

GenreValues ==
    {NoGenres} \cup { [kind |-> k, tags |-> Genres] : k \in {"list", "str"} }

\* the library a row was synced from: the title of its section
LibraryOf(item) ==
    IF item.plex_id \in MovieKeys THEN "Movies" ELSE "TV"

\* a deletion_rules row
Rule(id, dry_run_mode, grace, inactivity, min_rating, libs, genres, colls) ==
    [id |-> id, dry_run_mode |-> dry_run_mode,
     grace_period_days |-> grace,
     inactivity_threshold_days |-> inactivity,
     min_rating |-> min_rating,
     excluded_libraries |-> libs,
     excluded_genres |-> genres,
     excluded_collections |-> colls,
     last_run_at |-> None]

RuleIds == {1, 2}

\* the rule ids a request can name: those of the table and an unknown one
RequestRuleIds == RuleIds \cup {3}

\* the embedded user_stats(*) of a media_items row
ItemStats(item, stats) == { st \in stats : st.media_item_id = item.id }

MaxOf(S) == CHOOSE x \in S : \A y \in S : y <= x

\* the most recent view across all users, date_added when there is none
LastViewed(item, stats) ==
    LET played == { st.last_played_at :
                    st \in { s \in ItemStats(item, stats) :
                             s.last_played_at # None } }
    IN  IF played = {} THEN item.added_at ELSE MaxOf(played)

\* check 1 with the comparison turned around at the cutoff
TooNewAtCutoff(date_added, grace_cutoff) == date_added >= grace_cutoff

\* check 1: the item is newer than the grace cutoff
TooNew(date_added, grace_cutoff) == date_added > grace_cutoff

\* check 2: the item was viewed after the inactivity cutoff
RecentlyViewed(last_viewed, inactivity_cutoff) ==
    last_viewed > inactivity_cutoff

\* check 3: the rating filter
RatingProtected(rule, item) ==
    /\ Truthy(rule.min_rating)
    /\ Truthy(Get(item, "rating"))
    /\ item.rating >= rule.min_rating

\* check 4: the genre exclusions; a genres value that is no list counts as
\* an empty list
GenreExcluded(rule, item) ==
    LET genres == IF "genres" \in DOMAIN item THEN item.genres ELSE NoGenres
        item_genres == IF genres.kind = "list" THEN genres.tags ELSE {}
    IN  /\ rule.excluded_genres # {}
        /\ genres.kind # "none" /\ genres.tags # {}
        /\ \E genre \in item_genres : genre \in rule.excluded_genres

\* what the loop body decides for one row
Verdict(rule, item, stats, now) ==
    IF Get(item, "added_at") = None THEN "no_date_added"
    ELSE IF TooNew(item.added_at, now - Timedelta(rule.grace_period_days))
    THEN "too_new"
    ELSE IF RecentlyViewed(LastViewed(item, stats),
                           now - Timedelta(rule.inactivity_threshold_days))
    THEN "recently_viewed"
    ELSE IF RatingProtected(rule, item) THEN "rating"
    ELSE IF GenreExcluded(rule, item) THEN "genre"
    ELSE "candidate"

\* the candidate dict of a qualifying row
Candidate(item, stats, now) ==
    [id |-> item.id, plex_id |-> item.plex_id, type |-> item.type,
     days_since_added |-> Days(now - item.added_at),
     days_since_viewed |-> Days(now - LastViewed(item, stats)),
     rating |-> Get(item, "rating")]

\* how the store answers the media_items query: it fails, or it returns
\* the timestamps without or with a UTC offset
Formats == {"raise", "naive", "aware"}

\* scan_for_candidates: the list it returns, or the exception it leaves
\* with.  utcnow() is offset-naive, so the first row whose added_at parses
\* to an offset-aware datetime makes the subtraction raise TypeError.
ScanForCandidates(rule_id, rules, rows, stats, now, fmt) ==
    IF ~ \E rule \in rules : rule.id = rule_id
    THEN [raised |-> "ValueError", candidates |-> << >>]
    ELSE IF fmt = "raise" \/ rows = {}
    THEN [raised |-> "none", candidates |-> << >>]
    ELSE IF fmt = "aware" /\ \E item \in rows : Get(item, "added_at") # None
    THEN [raised |-> "TypeError", candidates |-> << >>]
    ELSE LET rule == CHOOSE rule \in rules : rule.id = rule_id
             ids == SortedSeq({ item.id : item \in
                       { it \in rows :
                         Verdict(rule, it, stats, now) = "candidate" } })
         IN  [raised |-> "none",
              candidates |->
                 [i \in 1 .. Len(ids) |->
                    Candidate(CHOOSE item \in rows : item.id = ids[i],
                              stats, now)]]

\* candidates a request can name
MaxCandidates == 2

CandidateIds == { PriorId(key) : key \in CatalogKeys } \cup {999}

CandidateIdLists ==
    UNION { [1 .. n -> CandidateIds] : n \in 1 .. MaxCandidates }

RowsOf(ids, rows) ==
    LET found == SelectSeq(ids, LAMBDA id : \E row \in rows : row.id = id)
    IN  [i \in 1 .. Len(found) |-> CHOOSE row \in rows : row.id = found[i]]

\* the audit_log rows the model keeps
MaxAudit == 2

\* the frame of the scan route
ScanIdle ==
    [pc |-> "idle", rule_id |-> 0, fmt |-> "none", raised |-> "none",
     candidates |-> << >>, collection |-> "none", status |-> 0]

NoRequest ==
    /\ batch.pc = "idle"
    /\ cas.pc = "idle"
    /\ scan.pc = "idle"

\* execute_deletion up to the candidate loop: with candidate_ids the fetch
\* of the selected rows, without them a scan of the rule.  An exception of
\* the scan leaves the request through the outer handlers.
ExecuteStart(idLists) ==
    /\ NoRequest
    /\ Len(audit_log) < MaxAudit
    /\ \E rule_id \in RequestRuleIds, ids \in idLists, dry_run \in BOOLEAN,
          fmt \in Formats :
       \E given \in IF ids = << >> THEN BOOLEAN ELSE {TRUE} :
         LET out == IF ids # << >>
                    THEN [raised |-> "none",
                          candidates |-> RowsOf(ids, media_items)]
                    ELSE ScanForCandidates(rule_id, deletion_rules,
                                           media_items, user_stats,
                                           UtcNow, fmt)
         IN  batch' = [BatchIdle EXCEPT
                          !.rule_id = rule_id,
                          !.scanned = (ids = << >>),
                          !.given = given,
                          !.candidate_ids = ids,
                          !.candidates = out.candidates,
                          !.dry_run = dry_run,
                          !.idx = 1,
                          !.error = out.raised,
                          !.pc = IF out.candidates = << >>
                                 THEN "done" ELSE "loop"]
    /\ UNCHANGED << media_items, nextId, remote, active_syncs, sync, cas,
                    deletion_rules, user_stats, audit_log, scan,
                    deletion_events, servers, clock, conn, runs,
                    race, ident, taut, cancel_reply >>

\* the candidate loop whose first exception ends the loop
ExecuteItemAborts ==
    LET candidate == batch.candidates[batch.idx]
    IN  /\ batch.pc = "loop"
        /\ batch.idx <= Len(batch.candidates)
        /\ IF ~ \E row \in media_items : row.id = candidate.id
           THEN /\ batch' = Counted(batch, "failed")
                /\ UNCHANGED << cas, deletion_events >>
           ELSE IF ~ CallAccepted(ExecuteDeletionKeywords)
           THEN /\ batch' = [Counted(batch, "exception") EXCEPT
                                !.issued = Append(@, batch.dry_run),
                                !.pc = "done"]
                /\ UNCHANGED << cas, deletion_events >>
           ELSE \E ins \in {"ok", "nodata", "raise"} :
                  LET row == CHOOSE row \in media_items : row.id = candidate.id
                      frame == StartFrame(row, batch.dry_run, "execute", ins,
                                          remote, deletion_events)
                      called == [batch EXCEPT
                                    !.issued = Append(@, batch.dry_run)]
                  IN  /\ cas' = frame
                      /\ deletion_events' =
                            InsertEvent(deletion_events, row, batch.dry_run, ins)
                      /\ batch' = IF frame.pc = "raised"
                                  THEN Counted(called, "exception")
                                  ELSE [called EXCEPT !.pc = "waiting"]
        /\ UNCHANGED << media_items, nextId, remote, active_syncs, sync,
                        deletion_rules, user_stats, audit_log, scan,
                        servers, clock, conn, runs,
                        race, ident, taut, cancel_reply >>

\* one turn of the candidate loop up to the call of delete_media_item
ExecuteItem ==
    LET candidate == batch.candidates[batch.idx]
    IN  /\ batch.pc = "loop"
        /\ batch.idx <= Len(batch.candidates)
        /\ IF ~ \E row \in media_items : row.id = candidate.id
           THEN /\ batch' = Counted(batch, "failed")
                /\ UNCHANGED << cas, deletion_events >>
           ELSE IF ~ CallAccepted(ExecuteDeletionKeywords)
           THEN /\ batch' = [Counted(batch, "exception") EXCEPT
                                !.issued = Append(@, batch.dry_run)]
                /\ UNCHANGED << cas, deletion_events >>
           ELSE \E ins \in {"ok", "nodata", "raise"} :
                  LET row == CHOOSE row \in media_items : row.id = candidate.id
                      frame == StartFrame(row, batch.dry_run, "execute", ins,
                                          remote, deletion_events)
                      called == [batch EXCEPT
                                    !.issued = Append(@, batch.dry_run)]
                  IN  /\ cas' = frame
                      /\ deletion_events' =
                            InsertEvent(deletion_events, row, batch.dry_run, ins)
                      /\ batch' = IF frame.pc = "raised"
                                  THEN Counted(called, "exception")
                                  ELSE [called EXCEPT !.pc = "waiting"]
        /\ UNCHANGED << media_items, nextId, remote, active_syncs, sync,
                        deletion_rules, user_stats, audit_log, scan,
                        servers, clock, conn, runs,
                        race, ident, taut, cancel_reply >>

\* an audit_log row
AuditRow(action, rule_id, dry_run, total) ==
    [action |-> action, resource_id |-> rule_id, dry_run |-> dry_run,
     candidates |-> total]

\* after the loop: the audit row, whose failure is logged and passed over
ExecuteFinish ==
    /\ batch.pc = "loop"
    /\ batch.idx > Len(batch.candidates)
    /\ batch' = [batch EXCEPT !.pc = "done"]
    /\ \E ok \in BOOLEAN :
         audit_log' =
            IF ok
            THEN Append(audit_log,
                        AuditRow(IF batch.dry_run
                                 THEN "execute_deletion_dry_run"
                                 ELSE "execute_deletion",
                                 batch.rule_id, batch.dry_run,
                                 Len(batch.candidates)))
            ELSE audit_log
    /\ UNCHANGED << media_items, nextId, remote, active_syncs, sync, cas,
                    deletion_rules, user_stats, scan,
                    deletion_events, servers, clock, conn, runs,
                    race, ident, taut, cancel_reply >>

(***************************************************************************)
(* The scan route: the scan of the rule, the audit row and the update of   *)
(* the Plex collection.                                                    *)
(***************************************************************************)
\* the call of DeletionService.scan_for_candidates that also stamps the rule
ScanRouteStampsRule ==
    /\ NoRequest
    /\ Len(audit_log) < MaxAudit
    /\ \E rule_id \in RequestRuleIds, fmt \in Formats :
         LET out == ScanForCandidates(rule_id, deletion_rules, media_items,
                                      user_stats, UtcNow, fmt)
         IN  /\ scan' = [ScanIdle EXCEPT
                           !.rule_id = rule_id,
                           !.fmt = fmt,
                           !.raised = out.raised,
                           !.candidates = out.candidates,
                           !.status = IF out.raised = "none" THEN 0
                                      ELSE IF out.raised = "ValueError"
                                      THEN 404 ELSE 500,
                           !.pc = IF out.raised = "none" THEN "audit"
                                  ELSE "done"]
             /\ deletion_rules' =
                   { IF rule.id = rule_id
                     THEN [rule EXCEPT !.last_run_at = UtcNow]
                     ELSE rule : rule \in deletion_rules }
    /\ UNCHANGED << media_items, nextId, remote, active_syncs, sync, cas,
                    batch, user_stats, audit_log,
                    deletion_events, servers, clock, conn, runs,
                    race, ident, taut, cancel_reply >>

\* the call of DeletionService.scan_for_candidates; ValueError becomes a
\* 404 and any other exception a 500
ScanRoute ==
    /\ NoRequest
    /\ Len(audit_log) < MaxAudit
    /\ \E rule_id \in RequestRuleIds, fmt \in Formats :
         LET out == ScanForCandidates(rule_id, deletion_rules, media_items,
                                      user_stats, UtcNow, fmt)
         IN  scan' = [ScanIdle EXCEPT
                        !.rule_id = rule_id,
                        !.fmt = fmt,
                        !.raised = out.raised,
                        !.candidates = out.candidates,
                        !.status = IF out.raised = "none" THEN 0
                                   ELSE IF out.raised = "ValueError"
                                   THEN 404 ELSE 500,
                        !.pc = IF out.raised = "none" THEN "audit"
                               ELSE "done"]
    /\ UNCHANGED << media_items, nextId, remote, active_syncs, sync, cas,
                    batch, deletion_rules, user_stats, audit_log,
                    deletion_events, servers, clock, conn, runs,
                    race, ident, taut, cancel_reply >>

\* the audit row of the scan; a failed insert ends the request with a 500
ScanRouteAudit ==
    /\ scan.pc = "audit"
    /\ \E ok \in BOOLEAN :
         IF ok
         THEN /\ audit_log' = Append(audit_log,
                                AuditRow("scan", scan.rule_id, TRUE,
                                         Len(scan.candidates)))
              /\ scan' = [scan EXCEPT !.pc = "collection"]
         ELSE /\ audit_log' = audit_log
              /\ scan' = [scan EXCEPT !.pc = "done", !.status = 500]
    /\ UNCHANGED << media_items, nextId, remote, active_syncs, sync, cas,
                    batch, deletion_rules, user_stats,
                    deletion_events, servers, clock, conn, runs,
                    race, ident, taut, cancel_reply >>

\* the update of the "Leaving Soon" collection, when the request asks for
\* it and there are candidates; its failure is logged and passed over
ScanRouteCollection ==
    /\ scan.pc = "collection"
    /\ \E update_plex_collection \in BOOLEAN,
          out \in {"no_server", "updated", "raise"} :
         scan' = [scan EXCEPT
                    !.collection =
                       IF update_plex_collection /\ Len(scan.candidates) > 0
                       THEN out ELSE "none",
                    !.status = 200,
                    !.pc = "done"]
    /\ UNCHANGED << media_items, nextId, remote, active_syncs, sync, cas,
                    batch, deletion_rules, user_stats, audit_log,
                    deletion_events, servers, clock, conn, runs,
                    race, ident, taut, cancel_reply >>

(***************************************************************************)
(* PlexConnectionManager.connect_to_server.  The manager runs without a    *)
(* suspension point, so a call is one step.  Times are counted in ticks of *)
(* HoursPerTick hours.                                                     *)
(***************************************************************************)
\* the latest time of day the model reaches
MaxClock == 3

HoursPerTick == 12

\* self.cache_duration_hours
CacheDurationHours == 24

\* resource.clientIdentifier of the media server of the account
Machines == {1}

\* the addresses a server can be reached at
Urls == {"local", "remote"}

NoUrl == "none"

\* what time.time() measures for a connection, in ms
Latencies == {40, 900}

\* a (user_id, machine_id) the servers table holds no row of
NoRow ==
    [present |-> FALSE, preferred_connection_url |-> NoUrl,
     connection_tested_at |-> None, connection_latency_ms |-> None,
     status |-> "none"]

NoServers == [m \in Machines |-> NoRow]

\* the frame of a call: ops are the connection attempts and the store
\* operations in their order, returned the address of the server returned
\* ("None", or "raise" for an exception); before and at are history
\* fields, the row and the time when the call began
ConnIdle ==
    [machine |-> 0, ops |-> << >>, returned |-> "none", latency |-> None,
     before |-> NoRow, at |-> 0]

Op(op, url, ok) == [op |-> op, url |-> url, ok |-> ok]

\* (datetime.now(tz) - tested_time).total_seconds() / 3600
AgeHours(now, tested_at) == (now - tested_at) * HoursPerTick

\* _try_cached_connection that leaves a failed address in the cache
TryCachedConnectionKeepsCache(row, now, sel, cached, upd, clr, lat) ==
    LET select == << Op("select", NoUrl, sel = "ok") >>
        url == row.preferred_connection_url
    IN  IF sel = "raise" \/ ~ row.present \/ url = NoUrl
        THEN [server |-> NoUrl, row |-> row, ops |-> select]
        ELSE IF /\ row.connection_tested_at # None
                /\ AgeHours(now, row.connection_tested_at) > CacheDurationHours
        THEN [server |-> NoUrl, row |-> row, ops |-> select]
        ELSE IF cached = "ok" /\ upd = "ok"
        THEN [server |-> url,
              row |-> [row EXCEPT !.connection_tested_at = now,
                                  !.connection_latency_ms = lat,
                                  !.status = "online"],
              ops |-> select \o << Op("try_cached", url, TRUE),
                                   Op("update", url, TRUE) >>]
        ELSE [server |-> NoUrl,
              row |-> row,
              ops |-> select
                        \o << Op("try_cached", url, cached = "ok") >>
                        \o (IF cached = "ok"
                            THEN << Op("update", url, FALSE) >> ELSE << >>)]

\* _try_cached_connection: sel is what the select of the row meets, cached
\* the attempt at the cached address, upd the update after its success and
\* clr the update that clears the address after a failure
TryCachedConnection(row, now, sel, cached, upd, clr, lat) ==
    LET select == << Op("select", NoUrl, sel = "ok") >>
        url == row.preferred_connection_url
    IN  IF sel = "raise" \/ ~ row.present \/ url = NoUrl
        THEN [server |-> NoUrl, row |-> row, ops |-> select]
        ELSE IF /\ row.connection_tested_at # None
                /\ AgeHours(now, row.connection_tested_at) > CacheDurationHours
        THEN [server |-> NoUrl, row |-> row, ops |-> select]
        ELSE IF cached = "ok" /\ upd = "ok"
        THEN [server |-> url,
              row |-> [row EXCEPT !.connection_tested_at = now,
                                  !.connection_latency_ms = lat,
                                  !.status = "online"],
              ops |-> select \o << Op("try_cached", url, TRUE),
                                   Op("update", url, TRUE) >>]
        ELSE [server |-> NoUrl,
              row |-> IF clr = "ok"
                      THEN [row EXCEPT !.preferred_connection_url = NoUrl]
                      ELSE row,
              ops |-> select
                        \o << Op("try_cached", url, cached = "ok") >>
                        \o (IF cached = "ok"
                            THEN << Op("update", url, FALSE) >> ELSE << >>)
                        \o << Op("clear", NoUrl, clr = "ok") >>]

\* _connect_and_cache that leaves the status alone when discovery fails
ConnectAndCacheSilent(row, now, disc, ups, off, lat) ==
    IF disc \in Urls /\ ups = "ok"
    THEN [server |-> disc,
          row |-> [present |-> TRUE, preferred_connection_url |-> disc,
                   connection_tested_at |-> now,
                   connection_latency_ms |-> lat, status |-> "online"],
          ops |-> << Op("discover", disc, TRUE),
                     Op("upsert_online", disc, TRUE) >>]
    ELSE [server |-> NoUrl,
          row |-> row,
          ops |-> << Op("discover", IF disc \in Urls THEN disc ELSE NoUrl,
                        disc \in Urls) >>
                    \o (IF disc \in Urls
                        THEN << Op("upsert_online", disc, FALSE) >>
                        ELSE << >>)]

\* _connect_and_cache: disc is the address resource.connect() reached (or
\* "fail"), ups what the upsert of the cache entry meets and off what the
\* upsert of the offline status meets; the latter is made in the except
\* clause, so its exception leaves the call
ConnectAndCache(row, now, disc, ups, off, lat) ==
    IF disc \in Urls /\ ups = "ok"
    THEN [server |-> disc,
          row |-> [present |-> TRUE, preferred_connection_url |-> disc,
                   connection_tested_at |-> now,
                   connection_latency_ms |-> lat, status |-> "online"],
          ops |-> << Op("discover", disc, TRUE),
                     Op("upsert_online", disc, TRUE) >>]
    ELSE [server |-> IF off = "ok" THEN NoUrl ELSE "raise",
          row |-> IF off = "ok"
                  THEN [row EXCEPT !.present = TRUE, !.status = "offline"]
                  ELSE row,
          ops |-> << Op("discover", IF disc \in Urls THEN disc ELSE NoUrl,
                        disc \in Urls) >>
                    \o (IF disc \in Urls
                        THEN << Op("upsert_online", disc, FALSE) >>
                        ELSE << >>)
                    \o << Op("upsert_offline", NoUrl, off = "ok") >>]

\* connect_to_server for the resource of machine m
ConnectToServer(m) ==
    /\ \E sel \in {"ok", "raise"}, disc \in Urls \cup {"fail"},
          lat \in Latencies :
       \E cached \in IF sel = "ok" THEN {"ok", "fail"} ELSE {"fail"},
          ups \in IF disc \in Urls THEN {"ok", "raise"} ELSE {"ok"} :
       \E upd \in IF cached = "ok" THEN {"ok", "raise"} ELSE {"ok"},
          off \in IF disc \in Urls /\ ups = "ok" THEN {"ok"}
                  ELSE {"ok", "raise"} :
       \E clr \in IF cached = "ok" /\ upd = "ok" THEN {"ok"}
                  ELSE {"ok", "raise"} :
         LET c == TryCachedConnection(servers[m], clock, sel, cached, upd,
                                      clr, lat)
             d == ConnectAndCache(c.row, clock, disc, ups, off, lat)
             hit == c.server # NoUrl
         IN  /\ servers' = [servers EXCEPT ![m] = IF hit THEN c.row ELSE d.row]
             /\ conn' = [machine |-> m,
                         ops |-> IF hit THEN c.ops ELSE c.ops \o d.ops,
                         returned |-> IF hit THEN c.server
                                      ELSE IF d.server = NoUrl THEN "None"
                                      ELSE d.server,
                         latency |-> lat,
                         before |-> servers[m],
                         at |-> clock]
    /\ UNCHANGED << media_items, nextId, remote, active_syncs, sync, cas,
                    batch, deletion_rules, user_stats, audit_log, scan,
                    deletion_events, clock, runs,
                    race, ident, taut, cancel_reply >>

\* time passes
Tick ==
    /\ clock < MaxClock
    /\ clock' = clock + 1
    /\ UNCHANGED << media_items, nextId, remote, active_syncs, sync, cas,
                    batch, deletion_rules, user_stats, audit_log, scan,
                    deletion_events, servers, conn, runs,
                    race, ident, taut, cancel_reply >>

(***************************************************************************)
(* connect_to_server called by several runs at once.  The calls share the  *)
(* servers table only; a call is interleaved with the others between its   *)
(* connection attempts and its store operations.                           *)
(***************************************************************************)
\* calls 1 and 2 overlap, call 3 is made after both have ended
CallIds == {1, 2, 3}

\* the machine all the calls are made for
RaceMachine == 1

\* the frame of a call: cached is the address the select returned, server
\* the address of the PlexServer the call holds; connected (the addresses
\* the call connected through) and raised (a store operation of the call
\* raised) are history fields
CallIdle ==
    [pc |-> "idle", cached |-> NoUrl, server |-> NoUrl, connected |-> {},
     returned |-> "none", raised |-> FALSE]

\* up: the addresses the server answers at
CallsIdle == [frame |-> [c \in CallIds |-> CallIdle], up |-> {}]

\* a row the manager wrote at time 0 when it connected through url
CachedRow(url) ==
    [present |-> TRUE, preferred_connection_url |-> url,
     connection_tested_at |-> 0, connection_latency_ms |-> 40,
     status |-> "online"]

OthersUnchanged ==
    UNCHANGED << media_items, nextId, remote, active_syncs, sync, cas,
                 batch, deletion_rules, user_stats, audit_log, scan,
                 deletion_events, clock, conn, runs, ident, taut,
                 cancel_reply >>

CallBegin(c) ==
    /\ race.frame[c].pc = "idle"
    /\ c = 3 => \A d \in {1, 2} : race.frame[d].pc = "done"
    /\ race' = [race EXCEPT !.frame[c].pc = "select"]
    /\ UNCHANGED servers
    /\ OthersUnchanged

\* the select of the row and the test of its age
CallSelect(c) ==
    LET row == servers[RaceMachine]
        url == row.preferred_connection_url
    IN  /\ race.frame[c].pc = "select"
        /\ \E sel \in {"ok", "raise"} :
             race' =
                IF sel = "raise"
                THEN [race EXCEPT !.frame[c].pc = "discover",
                                   !.frame[c].raised = TRUE]
                ELSE IF ~ row.present \/ url = NoUrl
                THEN [race EXCEPT !.frame[c].pc = "discover"]
                ELSE IF /\ row.connection_tested_at # None
                        /\ AgeHours(clock, row.connection_tested_at)
                              > CacheDurationHours
                THEN [race EXCEPT !.frame[c].pc = "discover"]
                ELSE [race EXCEPT !.frame[c].pc = "try",
                                   !.frame[c].cached = url]
        /\ UNCHANGED servers
        /\ OthersUnchanged

\* PlexServer(baseurl=cached_url, timeout=2): an address that answers can
\* still miss the short timeout
CallTry(c) ==
    LET f == race.frame[c]
    IN  /\ f.pc = "try"
        /\ \E ok \in IF f.cached \in race.up THEN BOOLEAN ELSE {FALSE} :
             race' =
                IF ok
                THEN [race EXCEPT !.frame[c].pc = "update",
                                   !.frame[c].server = f.cached,
                                   !.frame[c].connected = @ \cup {f.cached}]
                ELSE [race EXCEPT !.frame[c].pc = "clear"]
        /\ UNCHANGED servers
        /\ OthersUnchanged

\* the update after the cached address answered; its exception is caught
\* by the handler that clears the address
CallUpdate(c) ==
    LET f == race.frame[c]
    IN  /\ f.pc = "update"
        /\ \E upd \in {"ok", "raise"}, lat \in Latencies :
             IF upd = "ok"
             THEN /\ servers' =
                        [servers EXCEPT ![RaceMachine] =
                            IF @.present
                            THEN [@ EXCEPT !.connection_tested_at = clock,
                                           !.connection_latency_ms = lat,
                                           !.status = "online"]
                            ELSE @]
                  /\ race' = [race EXCEPT !.frame[c].pc = "done",
                                            !.frame[c].returned = f.server]
             ELSE /\ UNCHANGED servers
                  /\ race' = [race EXCEPT !.frame[c].pc = "clear",
                                            !.frame[c].server = NoUrl,
                                            !.frame[c].raised = TRUE]
        /\ OthersUnchanged

\* the update that clears the address; its exception is caught by the
\* outer handler
CallClear(c) ==
    /\ race.frame[c].pc = "clear"
    /\ \E clr \in {"ok", "raise"} :
         IF clr = "ok"
         THEN /\ servers' =
                    [servers EXCEPT ![RaceMachine] =
                        IF @.present
                        THEN [@ EXCEPT !.preferred_connection_url = NoUrl]
                        ELSE @]
              /\ race' = [race EXCEPT !.frame[c].pc = "discover"]
         ELSE /\ UNCHANGED servers
              /\ race' = [race EXCEPT !.frame[c].pc = "discover",
                                        !.frame[c].raised = TRUE]
    /\ OthersUnchanged

\* resource.connect(): the server is reached at one of the addresses it
\* answers at, if it answers at any
CallDiscover(c) ==
    /\ race.frame[c].pc = "discover"
    /\ IF race.up = {}
       THEN race' = [race EXCEPT !.frame[c].pc = "offline"]
       ELSE \E url \in race.up :
              race' = [race EXCEPT !.frame[c].pc = "upsert",
                                     !.frame[c].server = url,
                                     !.frame[c].connected = @ \cup {url}]
    /\ UNCHANGED servers
    /\ OthersUnchanged

\* an upsert of the cache entry that writes the address the call had read
\* from the cache
CallUpsertWritesCached(c) ==
    LET f == race.frame[c]
        written == IF f.cached # NoUrl THEN f.cached ELSE f.server
    IN  /\ f.pc = "upsert"
        /\ \E ups \in {"ok", "raise"}, lat \in Latencies :
             IF ups = "ok"
             THEN /\ servers' =
                        [servers EXCEPT ![RaceMachine] =
                            [present |-> TRUE,
                             preferred_connection_url |-> written,
                             connection_tested_at |-> clock,
                             connection_latency_ms |-> lat,
                             status |-> "online"]]
                  /\ race' = [race EXCEPT !.frame[c].pc = "done",
                                            !.frame[c].returned = f.server]
             ELSE /\ UNCHANGED servers
                  /\ race' = [race EXCEPT !.frame[c].pc = "offline",
                                            !.frame[c].server = NoUrl,
                                            !.frame[c].raised = TRUE]
        /\ OthersUnchanged

\* the upsert of the cache entry with the address that worked
CallUpsert(c) ==
    LET f == race.frame[c]
    IN  /\ f.pc = "upsert"
        /\ \E ups \in {"ok", "raise"}, lat \in Latencies :
             IF ups = "ok"
             THEN /\ servers' =
                        [servers EXCEPT ![RaceMachine] =
                            [present |-> TRUE,
                             preferred_connection_url |-> f.server,
                             connection_tested_at |-> clock,
                             connection_latency_ms |-> lat,
                             status |-> "online"]]
                  /\ race' = [race EXCEPT !.frame[c].pc = "done",
                                            !.frame[c].returned = f.server]
             ELSE /\ UNCHANGED servers
                  /\ race' = [race EXCEPT !.frame[c].pc = "offline",
                                            !.frame[c].server = NoUrl,
                                            !.frame[c].raised = TRUE]
        /\ OthersUnchanged

\* the upsert of the offline status, made in the except clause
CallOffline(c) ==
    /\ race.frame[c].pc = "offline"
    /\ \E off \in {"ok", "raise"} :
         IF off = "ok"
         THEN /\ servers' =
                    [servers EXCEPT ![RaceMachine] =
                        [@ EXCEPT !.present = TRUE, !.status = "offline"]]
              /\ race' = [race EXCEPT !.frame[c].pc = "done",
                                        !.frame[c].returned = "None"]
         ELSE /\ UNCHANGED servers
              /\ race' = [race EXCEPT !.frame[c].pc = "done",
                                        !.frame[c].returned = "raise",
                                        !.frame[c].raised = TRUE]
    /\ OthersUnchanged

\* the server starts or stops answering at some of its addresses, before
\* the later call is made
Flap ==
    /\ race.frame[3].pc = "idle"
    /\ \E up \in SUBSET Urls :
         /\ up # race.up
         /\ race' = [race EXCEPT !.up = up]
    /\ UNCHANGED servers
    /\ OthersUnchanged

(***************************************************************************)
(* The extraction of the cross-reference ids of a remote item from its     *)
(* guids, as the sync does it for a movie and for the show of an episode.  *)
(***************************************************************************)
\* the guids an item can carry
MaxGuids == 3

Namespaces == {"tmdb", "tvdb", "imdb"}

\* guid.id is ns://id
Guids == [ns : Namespaces, id : {1, 2}]

GuidLists == UNION { [1 .. n -> Guids] : n \in 0 .. MaxGuids }

\* tmdb_id = tvdb_id = imdb_id = None before the loop
NoIds == [ns \in Namespaces |-> None]

\* the frame of the extraction: ids are the three locals, i the place of
\* the loop in guids, row the ids of the media_data the upsert is given
IdentIdle == [pc |-> "idle", guids |-> << >>, i |-> 0, ids |-> NoIds,
              row |-> NoIds]

\* one turn of the loop over the guids: the local of the guid's namespace
\* is assigned the part of guid.id after ns://
GuidStep ==
    /\ ident.pc = "loop"
    /\ ident.i <= Len(ident.guids)
    /\ LET guid == ident.guids[ident.i]
       IN  ident' = [ident EXCEPT !.ids[guid.ns] = guid.id,
                                  !.i = @ + 1]
    /\ UNCHANGED << media_items, nextId, remote, active_syncs, sync, cas,
                    batch, deletion_rules, user_stats, audit_log, scan,
                    deletion_events, servers, clock, conn, runs, race, taut,
                    cancel_reply >>

\* after the loop: media_data takes the three locals and is upserted
GuidsDone ==
    /\ ident.pc = "loop"
    /\ ident.i > Len(ident.guids)
    /\ ident' = [ident EXCEPT !.row = ident.ids, !.pc = "done"]
    /\ UNCHANGED << media_items, nextId, remote, active_syncs, sync, cas,
                    batch, deletion_rules, user_stats, audit_log, scan,
                    deletion_events, servers, clock, conn, runs, race, taut,
                    cancel_reply >>


(***************************************************************************)
(* stream_tautulli_sync: the event generator of the watch-history sync.    *)
(***************************************************************************)
\* the records the history source can hold
MaxHistory == 3

\* batch_size, 100 in the source
BatchSize == 2

\* the errors list is kept by its length modulo ErrorsMod, so that a loop
\* that appends to it without end has finitely many states
ErrorsMod == 3

\* the frame of the generator: last is the status of the last event,
\* history the number of records the source holds, has_server whether the
\* integration row carries a server_id
TautIdle ==
    [pc |-> "idle", offset |-> 0, total_estimated |-> None,
     items_processed |-> 0, errors |-> 0, has_server |-> FALSE,
     last |-> "none", history |-> 0]

\* the methods TautulliSyncService defines; a call of another name raises
\* AttributeError
SyncServiceMethods ==
    {"sync_watch_history", "_aggregate_by_rating_key",
     "_update_media_item_stats"}

\* the generator up to the pagination loop: the lookup of the integration
TautBegin ==
    /\ taut.pc = "idle"
    /\ \E out \in {"raise", "none", "with_server", "without_server"} :
         taut' = IF out \in {"raise", "none"}
                 THEN [taut EXCEPT !.pc = "done", !.last = "error"]
                 ELSE [taut EXCEPT !.pc = "loop", !.last = "counting",
                                   !.has_server = (out = "with_server")]
    /\ UNCHANGED << media_items, nextId, remote, active_syncs, sync, cas,
                    batch, deletion_rules, user_stats, audit_log, scan,
                    deletion_events, servers, clock, conn, runs, race,
                    ident, cancel_reply >>

\* the frame after the handler of the loop: the error is appended and the
\* loop goes on with the same offset
BatchError(t) == [t EXCEPT !.errors = (@ + 1) % ErrorsMod]

\* one turn of the pagination loop: fetch is what get_history meets, n the
\* number of records it returns from offset on
TautBatch ==
    LET n == IF taut.history - taut.offset < BatchSize
             THEN IF taut.history > taut.offset
                  THEN taut.history - taut.offset ELSE 0
             ELSE BatchSize
        estimated == IF taut.total_estimated = None
                     THEN [taut EXCEPT !.total_estimated = taut.history]
                     ELSE taut
    IN  /\ taut.pc = "loop"
        /\ \E fetch \in {"raise", "no_data", "records"} :
             taut' =
                IF fetch = "raise"
                THEN BatchError(taut)
                ELSE IF fetch = "no_data" \/ n = 0
                THEN [taut EXCEPT !.pc = "log"]
                ELSE IF "process_history_batch" \notin SyncServiceMethods
                THEN BatchError(estimated)
                ELSE [estimated EXCEPT
                         !.items_processed = @ + n,
                         !.last = "syncing",
                         !.offset = @ + BatchSize,
                         !.pc = IF n < BatchSize
                                   \/ taut.offset + BatchSize
                                         >= estimated.total_estimated
                                THEN "log" ELSE "loop"]
        /\ UNCHANGED << media_items, nextId, remote, active_syncs, sync, cas,
                        batch, deletion_rules, user_stats, audit_log, scan,
                        deletion_events, servers, clock, conn, runs, race,
                        ident, cancel_reply >>

\* after the loop: the sync_history row and the complete event; an insert
\* that raises is answered with the error event of the outer handler
TautLog ==
    /\ taut.pc = "log"
    /\ \E ins \in IF taut.has_server THEN {"ok", "raise"} ELSE {"ok"} :
         taut' = [taut EXCEPT !.pc = "done",
                              !.last = IF ins = "ok" THEN "complete"
                                       ELSE "error"]
    /\ UNCHANGED << media_items, nextId, remote, active_syncs, sync, cas,
                    batch, deletion_rules, user_stats, audit_log, scan,
                    deletion_events, servers, clock, conn, runs, race,
                    ident, cancel_reply >>


(***************************************************************************)
(* Specifications.                                                         *)
(***************************************************************************)
\* two rules that differ in dry_run_mode only
RulePair(grace, inactivity, min_rating, libs, genres, colls) ==
    { Rule(id, id = 1, grace, inactivity, min_rating, libs, genres, colls) :
      id \in RuleIds }

AdminRules == RulePair(1, 1, None, {}, {}, {})

\* a media_items row with the columns the scan reads
RetentionRow(key, added_at, rating, genres, collections, last_watched_at) ==
    [id        |-> PriorId(key),
     server_id |-> key[1],
     plex_id   |-> key[2],
     type      |-> MediaData(key[1], key[2]).type,
     tmdb_id   |-> MediaData(key[1], key[2]).tmdb_id,
     tvdb_id   |-> MediaData(key[1], key[2]).tvdb_id,
     added_at  |-> added_at,
     rating    |-> rating,
     genres    |-> genres,
     collections |-> collections,
     last_watched_at |-> last_watched_at]

MovieKey == << ServerIdOf("u1", 1), 101 >>
EpisodeKey == << ServerIdOf("u1", 2), 211 >>

\* an old row nobody watched
OldRow(key) == RetentionRow(key, 0, None, NoGenres, {}, None)

\* a user_stats row
Stat(key, user, last_played_at) ==
    [media_item_id |-> PriorId(key), user_id |-> user,
     last_played_at |-> last_played_at, play_count |-> 1]

\* the rows of the movie that differ from OldRow in at most one of rating,
\* genres, collections and last_watched_at, at any added_at
MovieRows ==
    { RetentionRow(MovieKey, t, p[1], p[2], p[3], p[4]) :
      t \in {None} \cup Times,
      p \in ({None, 0, 5} \X {NoGenres} \X {{}} \X {None})
             \cup ({None} \X GenreValues \X {{}} \X {None})
             \cup ({None} \X {NoGenres} \X {{}, {"Keep"}} \X {None})
             \cup ({None} \X {NoGenres} \X {{}} \X {None, UtcNow}) }

\* the user_stats of the movie: none, one user's, or two users'
MovieStats ==
    {{}} \cup { {Stat(MovieKey, "u1", t)} : t \in {None} \cup Times }
         \cup { {Stat(MovieKey, "u1", 0), Stat(MovieKey, "u2", t)} :
                t \in {None, UtcNow} }

\* the rule tables a scan is tried with: any thresholds, and at most one of
\* the rating filter and the exclusion lists
RuleTables ==
    { RulePair(g, i, p[1], p[2], p[3], p[4]) :
            g \in 0 .. MaxDays, i \in 0 .. MaxDays,
            p \in ({None, 0, 5} \X {{}} \X {{}} \X {{}})
                   \cup ({None} \X {{"Movies"}} \X {{}} \X {{}})
                   \cup ({None} \X {{}} \X {Genres} \X {{}})
                   \cup ({None} \X {{}} \X {{}} \X {{"Keep"}}) }

Init ==
    /\ \E keys \in SUBSET CatalogKeys :
         media_items = { PriorRow(key) : key \in keys }
    /\ nextId = 1
    /\ remote \in SUBSET RatingKeys
    /\ active_syncs = [u \in Users |-> "absent"]
    /\ sync = [r \in RunIds |-> IdleRun]
    /\ cas = CasIdle
    /\ batch = BatchIdle
    /\ deletion_rules = AdminRules
    /\ user_stats = {}
    /\ audit_log = << >>
    /\ scan = ScanIdle
    /\ deletion_events = << >>
    /\ servers = NoServers
    /\ clock = 0
    /\ conn = ConnIdle
    /\ runs = 1
    /\ race = CallsIdle
    /\ ident = IdentIdle
    /\ taut = TautIdle
    /\ cancel_reply = NoReplies

\* one sync run of user u1, and cancellation requests of any user
NextSync ==
    \/ Begin(1, "u1")
    \/ SkipResource(1)
    \/ ConnectServer(1)
    \/ ResourcesDone(1)
    \/ SectionStart(1)
    \/ SectionsDone(1)
    \/ CancelAtItem(1)
    \/ MovieStep(1)
    \/ ShowStep(1)
    \/ ItemsDone(1)
    \/ CancelAtEpisode(1)
    \/ EpisodeStep(1)
    \/ EpisodesDone(1)
    \/ Cleanup(1)
    \/ CleanupSelectFails(1)
    \/ Finish(1)
    \/ \E u \in Users : CancelSync(u)

SpecSync == Init /\ [][NextSync]_vars

\* sync runs a client can ask for, one after the other
MaxRuns == 2

\* the client asks for the next run: the generator of the run before is
\* gone
Restart(r) ==
    /\ sync[r].pc = "done"
    /\ runs < MaxRuns
    /\ runs' = runs + 1
    /\ sync' = [sync EXCEPT ![r] = IdleRun]
    /\ UNCHANGED << media_items, nextId, remote, active_syncs, cas, batch,
                    deletion_rules, user_stats, audit_log, scan,
                    deletion_events, servers, clock, conn,
                    race, ident, taut, cancel_reply >>

\* the steps of run r after its start, cancellation apart
RunSteps(r) ==
    \/ SkipResource(r)
    \/ ConnectServer(r)
    \/ ResourcesDone(r)
    \/ SectionStart(r)
    \/ SectionsDone(r)
    \/ MovieStep(r)
    \/ ShowStep(r)
    \/ ItemsDone(r)
    \/ EpisodeStep(r)
    \/ EpisodesDone(r)
    \/ Cleanup(r)
    \/ Finish(r)

\* the catalog holds no row, one row or every row of earlier runs and the
\* remote library holds every item
InitResync ==
    /\ \E keys \in {{}, CatalogKeys} \cup { {key} : key \in CatalogKeys } :
         media_items = { PriorRow(key) : key \in keys }
    /\ nextId = 1
    /\ remote = RatingKeys
    /\ active_syncs = [u \in Users |-> "absent"]
    /\ sync = [r \in RunIds |-> IdleRun]
    /\ cas = CasIdle
    /\ batch = BatchIdle
    /\ deletion_rules = AdminRules
    /\ user_stats = {}
    /\ audit_log = << >>
    /\ scan = ScanIdle
    /\ deletion_events = << >>
    /\ servers = NoServers
    /\ clock = 0
    /\ conn = ConnIdle
    /\ runs = 1
    /\ race = CallsIdle
    /\ ident = IdentIdle
    /\ taut = TautIdle
    /\ cancel_reply = NoReplies

\* sync runs of user u1, one after the other, over an unchanged remote
\* library, with the cancellation requests of the user
NextResync ==
    \/ Begin(1, "u1")
    \/ RunSteps(1)
    \/ CancelAtItem(1)
    \/ CancelAtEpisode(1)
    \/ CancelSync("u1")
    \/ Restart(1)

SpecResync == InitResync /\ [][NextResync]_vars

\* an empty catalog and the whole remote library
InitConcurrent ==
    /\ media_items = {}
    /\ nextId = 1
    /\ remote = RatingKeys
    /\ active_syncs = [u \in Users |-> "absent"]
    /\ sync = [r \in RunIds |-> IdleRun]
    /\ cas = CasIdle
    /\ batch = BatchIdle
    /\ deletion_rules = AdminRules
    /\ user_stats = {}
    /\ audit_log = << >>
    /\ scan = ScanIdle
    /\ deletion_events = << >>
    /\ servers = NoServers
    /\ clock = 0
    /\ conn = ConnIdle
    /\ runs = 1
    /\ race = CallsIdle
    /\ ident = IdentIdle
    /\ taut = TautIdle
    /\ cancel_reply = NoReplies

\* a run of user u1 and a run of user u2, interleaved at their yields
NextConcurrent ==
    \/ Begin(1, "u1")
    \/ Begin(2, "u2")
    \/ \E r \in RunIds : RunSteps(r)

SpecConcurrent == InitConcurrent /\ [][NextConcurrent]_vars

\* the request is answered and its frames are gone
RequestOver ==
    /\ \/ batch.pc = "done"
       \/ scan.pc = "done"
       \/ batch.pc = "idle" /\ cas.pc \in {"returned", "raised"}
    /\ cas' = CasIdle
    /\ batch' = BatchIdle
    /\ scan' = ScanIdle
    /\ UNCHANGED << media_items, nextId, remote, active_syncs, sync,
                    deletion_rules, user_stats, audit_log,
                    deletion_events, servers, clock, conn, runs,
                    race, ident, taut, cancel_reply >>

\* invocations of delete_media_item and execute_deletion requests, one at a
\* time, over a store whose writes of the deletion event succeed
NextCascade ==
    \/ InvokeDelete(CascadeItems)
    \/ PlexStep({"ok"})
    \/ SonarrStep({"ok"})
    \/ RadarrStep({"ok"})
    \/ OverseerrStep({"ok"})
    \/ Aggregate({"ok"})
    \/ ExecuteStart(CandidateIdLists \cup {<< >>})
    \/ ExecuteItem
    \/ ExecuteFinish

\* the catalog after a sync of the whole library, and any state of the
\* remote library
InitCascade ==
    /\ media_items = { PriorRow(key) : key \in CatalogKeys }
    /\ nextId = 1
    /\ remote \in SUBSET RatingKeys
    /\ active_syncs = [u \in Users |-> "absent"]
    /\ sync = [r \in RunIds |-> IdleRun]
    /\ cas = CasIdle
    /\ batch = BatchIdle
    /\ deletion_rules = AdminRules
    /\ user_stats = {}
    /\ audit_log = << >>
    /\ scan = ScanIdle
    /\ deletion_events = << >>
    /\ servers = NoServers
    /\ clock = 0
    /\ conn = ConnIdle
    /\ runs = 1
    /\ race = CallsIdle
    /\ ident = IdentIdle
    /\ taut = TautIdle
    /\ cancel_reply = NoReplies

SpecCascade == InitCascade /\ [][NextCascade]_vars

\* one scan request over any rule, any row of the movie and any watch
\* history of it
InitRetention ==
    /\ \E row \in MovieRows : media_items = {row, OldRow(EpisodeKey)}
    /\ nextId = 1
    /\ remote = RatingKeys
    /\ active_syncs = [u \in Users |-> "absent"]
    /\ sync = [r \in RunIds |-> IdleRun]
    /\ cas = CasIdle
    /\ batch = BatchIdle
    /\ deletion_rules \in RuleTables
    /\ user_stats \in MovieStats
    /\ audit_log = << >>
    /\ scan = ScanIdle
    /\ deletion_events = << >>
    /\ servers = NoServers
    /\ clock = 0
    /\ conn = ConnIdle
    /\ runs = 1
    /\ race = CallsIdle
    /\ ident = IdentIdle
    /\ taut = TautIdle
    /\ cancel_reply = NoReplies

NextRetention ==
    \/ ScanRoute
    \/ ScanRouteAudit
    \/ ScanRouteCollection

SpecRetention == InitRetention /\ [][NextRetention]_vars

\* scan and execute requests, one after the other, over a catalog of two
\* old rows
InitAdmin ==
    /\ media_items = {OldRow(MovieKey), OldRow(EpisodeKey)}
    /\ nextId = 1
    /\ remote = RatingKeys
    /\ active_syncs = [u \in Users |-> "absent"]
    /\ sync = [r \in RunIds |-> IdleRun]
    /\ cas = CasIdle
    /\ batch = BatchIdle
    /\ deletion_rules = AdminRules
    /\ user_stats = {}
    /\ audit_log = << >>
    /\ scan = ScanIdle
    /\ deletion_events = << >>
    /\ servers = NoServers
    /\ clock = 0
    /\ conn = ConnIdle
    /\ runs = 1
    /\ race = CallsIdle
    /\ ident = IdentIdle
    /\ taut = TautIdle
    /\ cancel_reply = NoReplies

NextAdmin ==
    \/ ScanRoute
    \/ ScanRouteAudit
    \/ ScanRouteCollection
    \/ ExecuteStart(CandidateIdLists \cup {<< >>})
    \/ ExecuteItem
    \/ ExecuteFinish
    \/ RequestOver

SpecAdmin == InitAdmin /\ [][NextAdmin]_vars

\* invocations of delete_media_item on one movie without cross-reference
\* ids, one after the other, over a store whose writes can fail
RetryItems ==
    { [id |-> 101, server_id |-> ServerIdOf("u1", 1), plex_id |-> 101,
       type |-> "movie", tmdb_id |-> 0, tvdb_id |-> 0] }

InvocationOver ==
    /\ cas.pc \in {"returned", "raised"}
    /\ cas' = CasIdle
    /\ UNCHANGED << media_items, nextId, remote, active_syncs, sync, batch,
                    deletion_rules, user_stats, audit_log, scan,
                    deletion_events, servers, clock, conn, runs,
                    race, ident, taut, cancel_reply >>

NextEvents ==
    \/ InvokeDelete(RetryItems)
    \/ PlexStep({"ok", "raise"})
    \/ SonarrStep({"ok"})
    \/ RadarrStep({"ok"})
    \/ OverseerrStep({"ok", "raise"})
    \/ Aggregate({"ok", "update_raise", "log_raise"})
    \/ InvocationOver

SpecEvents == InitAdmin /\ [][NextEvents]_vars

\* calls of connect_to_server over an empty servers table, and the passing
\* of time
NextConnect ==
    \/ \E m \in Machines : ConnectToServer(m)
    \/ Tick

SpecConnect == InitAdmin /\ [][NextConnect]_vars

\* two overlapping calls and a later one for the same server: the table
\* holds no row of it, or a row written at time 0 that is within the cache
\* duration (time 0) or older (time MaxClock)
InitRace ==
    /\ media_items = {OldRow(MovieKey), OldRow(EpisodeKey)}
    /\ nextId = 1
    /\ remote = RatingKeys
    /\ active_syncs = [u \in Users |-> "absent"]
    /\ sync = [r \in RunIds |-> IdleRun]
    /\ cas = CasIdle
    /\ batch = BatchIdle
    /\ deletion_rules = AdminRules
    /\ user_stats = {}
    /\ audit_log = << >>
    /\ scan = ScanIdle
    /\ deletion_events = << >>
    /\ \E row \in {NoRow} \cup { CachedRow(url) : url \in Urls } :
         servers = [m \in Machines |-> row]
    /\ clock \in {0, MaxClock}
    /\ conn = ConnIdle
    /\ runs = 1
    /\ \E up \in SUBSET Urls : race = [CallsIdle EXCEPT !.up = up]
    /\ ident = IdentIdle
    /\ taut = TautIdle
    /\ cancel_reply = NoReplies

\* two runs of user u1, interleaved at their yields, and the cancellation
\* requests of the user
NextSameUser ==
    \/ Begin(1, "u1")
    \/ Begin(2, "u1")
    \/ \E r \in RunIds :
          \/ RunSteps(r)
          \/ CancelAtItem(r)
          \/ CancelAtEpisode(r)
    \/ CancelSync("u1")

SpecSameUser == InitConcurrent /\ [][NextSameUser]_vars

\* sync runs of user u1, one after the other, and the cancellation
\* requests of the user, made with or without a run in progress
NextCancel ==
    \/ Begin(1, "u1")
    \/ RunSteps(1)
    \/ CancelAtItem(1)
    \/ CancelAtEpisode(1)
    \/ CleanupSelectFails(1)
    \/ CancelSync("u1")
    \/ CancelSyncNoRun("u1")
    \/ Restart(1)

SpecCancel == InitConcurrent /\ [][NextCancel]_vars

\* one sync run of user u1 whose counts can fall short of the items it
\* then syncs
NextProgress ==
    \/ NextSync
    \/ ConnectServerMiscount(1)

SpecProgress == Init /\ [][NextProgress]_vars

\* a request for the watch-history stream over a history source that
\* holds any number of records
InitTaut ==
    /\ media_items = {OldRow(MovieKey), OldRow(EpisodeKey)}
    /\ nextId = 1
    /\ remote = RatingKeys
    /\ active_syncs = [u \in Users |-> "absent"]
    /\ sync = [r \in RunIds |-> IdleRun]
    /\ cas = CasIdle
    /\ batch = BatchIdle
    /\ deletion_rules = AdminRules
    /\ user_stats = {}
    /\ audit_log = << >>
    /\ scan = ScanIdle
    /\ deletion_events = << >>
    /\ servers = NoServers
    /\ clock = 0
    /\ conn = ConnIdle
    /\ runs = 1
    /\ race = CallsIdle
    /\ ident = IdentIdle
    /\ \E n \in 0 .. MaxHistory : taut = [TautIdle EXCEPT !.history = n]
    /\ cancel_reply = NoReplies

NextTaut ==
    \/ TautBegin
    \/ TautBatch
    \/ TautLog

\* the event loop resumes the generator as long as it is not over
SpecTaut ==
    /\ InitTaut
    /\ [][NextTaut]_vars
    /\ WF_vars(TautBegin)
    /\ WF_vars(TautBatch)
    /\ WF_vars(TautLog)

\* the sync reaches an item with any list of guids
InitIdent ==
    /\ media_items = {OldRow(MovieKey), OldRow(EpisodeKey)}
    /\ nextId = 1
    /\ remote = RatingKeys
    /\ active_syncs = [u \in Users |-> "absent"]
    /\ sync = [r \in RunIds |-> IdleRun]
    /\ cas = CasIdle
    /\ batch = BatchIdle
    /\ deletion_rules = AdminRules
    /\ user_stats = {}
    /\ audit_log = << >>
    /\ scan = ScanIdle
    /\ deletion_events = << >>
    /\ servers = NoServers
    /\ clock = 0
    /\ conn = ConnIdle
    /\ runs = 1
    /\ race = CallsIdle
    /\ \E guids \in GuidLists :
         ident = [IdentIdle EXCEPT !.pc = "loop", !.guids = guids, !.i = 1]
    /\ taut = TautIdle
    /\ cancel_reply = NoReplies

NextIdent ==
    \/ GuidStep
    \/ GuidsDone

SpecIdent == InitIdent /\ [][NextIdent]_vars

NextRace ==
    \/ \E c \in CallIds :
          \/ CallBegin(c)
          \/ CallSelect(c)
          \/ CallTry(c)
          \/ CallUpdate(c)
          \/ CallClear(c)
          \/ CallDiscover(c)
          \/ CallUpsert(c)
          \/ CallOffline(c)
    \/ Flap

SpecRace == InitRace /\ [][NextRace]_vars

(***************************************************************************)
(* Claims about the sync run.                                              *)
(***************************************************************************)
RunEnded(r) == sync[r].pc \in {"finishing", "done"}

LastEvent(r) == sync[r].events[Len(sync[r].events)]

\* the ids of the rows of the catalog
Ids(rows) == { row.id : row \in rows }

RunComplete(r) == RunEnded(r) /\ LastEvent(r).status = "complete"

\* C1: a run that observed the cancellation flag deletes no catalog row: it
\* ends right after the cancelled event and never reaches the orphan cleanup.
C1_CancelledRunDeletesNothing ==
    \A r \in RunIds :
        sync[r].cancelled =>
            /\ sync[r].removed = {}
            /\ Ids(sync[r].prior) \subseteq Ids(media_items)
            /\ RunEnded(r)
            /\ LastEvent(r).status = "cancelled"

\* C1 witness: a cancelled run that had synced an item and had rows to lose:
\* rows of the catalog that the run had not seen when it was cancelled.
C1_Witness ==
    \E r \in RunIds :
        /\ sync[r].cancelled
        /\ sync[r].pc = "done"
        /\ sync[r].synced_items > 0
        /\ OrphanRows(media_items, sync[r].synced_plex_ids) # {}

\* C2: a run in which the iteration of a section was cut short by a section
\* or server error removes no catalog row.
C2_NoPurgeAfterCutShort ==
    \A r \in RunIds : sync[r].cut_short => sync[r].removed = {}

\* C3: the rows of a server that the run could not connect to are not
\* removed by the run.
C3_UnreachedServerKept ==
    \A r \in RunIds : \A row \in sync[r].removed :
        row.server_id \notin sync[r].unreached

\* C4: a run that completes without any error removes exactly the prior rows
\* whose (server_id, plex_id) it did not observe, and reports their number
\* in the complete event.
C4_OrphansExact ==
    \A r \in RunIds :
        (RunComplete(r) /\ ~ sync[r].errors) =>
            LET gone == { row \in sync[r].prior : RowKey(row) \notin sync[r].observed }
            IN  /\ sync[r].removed = gone
                /\ Ids(sync[r].prior) \ Ids(media_items) = Ids(gone)
                /\ LastEvent(r).orphaned_removed = Cardinality(gone)

\* C4 witness: an error-free complete run that observed items, kept a prior
\* row and removed another.
C4_Witness ==
    \E r \in RunIds :
        /\ RunComplete(r)
        /\ ~ sync[r].errors
        /\ sync[r].removed # {}
        /\ \E row \in sync[r].prior : RowKey(row) \in sync[r].observed

(***************************************************************************)
(* Claims about the cascade deletion.                                      *)
(***************************************************************************)
\* delete_media_item has returned or raised after running its steps
CasEnded == cas.pc \in {"returned", "raised"} /\ cas.error # "insert"

\* the Plex step of the invocation is over
PlexStepDone ==
    cas.pc \in {"sonarr", "radarr", "overseerr", "aggregate"} \/ CasEnded

CountCalls(calls, names) ==
    Cardinality({ i \in 1 .. Len(calls) : calls[i] \in names })

LaterSteps ==
    {"_delete_from_sonarr", "_delete_from_radarr", "_delete_from_overseerr"}

ExternalCalls ==
    {"myplex.resources", "plex.connect", "plex.fetch", "plex.delete",
     "sonarr.get", "sonarr.delete", "radarr.get", "radarr.delete",
     "overseerr.get", "overseerr.delete"}

\* a step that was applicable and did not succeed
StepFailed(d) == ~ d.success /\ ~ (HasKey(d, "skipped") /\ d.skipped)

\* the overall_status the aggregation rule of the specification gives
ClaimedStatus(results) ==
    IF ~ results.plex.success THEN "failed"
    ELSE IF \/ StepFailed(results.sonarr)
            \/ StepFailed(results.radarr)
            \/ StepFailed(results.overseerr)
    THEN "partial"
    ELSE "completed"

\* C5: when the Plex step fails, none of the Sonarr, Radarr and Overseerr
\* steps is called and delete_media_item returns overall_status failed.
C5_PlexFailureStopsCascade ==
    (PlexStepDone /\ ~ cas.results.plex.success) =>
        /\ CountCalls(cas.calls, LaterSteps) = 0
        /\ CasEnded => /\ cas.pc = "returned"
                       /\ cas.results.overall_status = "failed"

\* C6: for every combination of per-target outcomes delete_media_item
\* returns the overall_status of the aggregation rule: failed when the Plex
\* step failed, partial when it succeeded and an applicable later step
\* failed, completed otherwise.
C6_AggregationRule ==
    CasEnded =>
        /\ cas.pc = "returned"
        /\ cas.results.overall_status = ClaimedStatus(cas.results)

\* C7: for a show, season or episode whose Plex step succeeded and whose
\* Sonarr lookup failed with an error, delete_media_item returns
\* overall_status partial (which the batch counts as deleted); stated for
\* the invocations whose Overseerr step was skipped, so that the Sonarr step
\* is the only one that failed.
C7_SonarrLookupErrorIsPartial ==
    ( /\ CasEnded
      /\ cas.item.type \in ShowTypes
      /\ cas.results.plex.success
      /\ cas.sonarr_env \in {"lookup_error", "lookup_raise"}
      /\ CountCalls(cas.calls, {"sonarr.get"}) = 1
      /\ HasKey(cas.results.overseerr, "skipped") ) =>
        /\ cas.pc = "returned"
        /\ cas.results.overall_status = "partial"

\* C8: when the fetch by plex_id reports that the item is not on the media
\* server, the Plex step of the invocation is a success.
C8_AbsentEntryIsSuccess ==
    (PlexStepDone /\ cas.fetch = "notfound") => cas.results.plex.success

\* C9: a dry-run invocation issues no call to Plex, Sonarr, Radarr or
\* Overseerr and leaves the remote library as it was.
C9_DryRunCallsNothing ==
    (cas.pc # "idle" /\ cas.dry_run) =>
        /\ CountCalls(cas.calls, ExternalCalls) = 0
        /\ remote = cas.remote0

\* C9 witness: a dry run that is over, with the server row and token found
\* and with integrations and cross-reference ids present, so that every step
\* reached its dry_run return.
C9_Witness ==
    /\ CasEnded
    /\ cas.dry_run
    /\ HasKey(cas.results.plex, "dry_run")
    /\ HasKey(cas.results.overseerr, "dry_run")
    /\ \/ HasKey(cas.results.sonarr, "dry_run")
       \/ HasKey(cas.results.radarr, "dry_run")

\* C10: a dry run in which every step reports success (simulated, or
\* skipped) returns overall_status completed, whichever integrations are
\* configured and cross-reference ids present.
C10_DryRunCompletes ==
    ( /\ CasEnded
      /\ cas.dry_run
      /\ cas.results.plex.success
      /\ ~ StepFailed(cas.results.sonarr)
      /\ ~ StepFailed(cas.results.radarr)
      /\ ~ StepFailed(cas.results.overseerr) ) =>
        /\ cas.pc = "returned"
        /\ cas.results.overall_status = "completed"

(***************************************************************************)
(* Claims about the retention rules and the admin requests.                *)
(***************************************************************************)
\* the rule of the scan request and the ids of the rows it returned
ScannedRule == CHOOSE rule \in deletion_rules : rule.id = scan.rule_id

Returned == { scan.candidates[i].id : i \in 1 .. Len(scan.candidates) }

\* the scan read the catalog and returned its list
ScanReturned ==
    /\ scan.pc # "idle"
    /\ scan.raised = "none"
    /\ scan.fmt = "naive"

\* the overrides as the rules state them
RatingOverride(rule, item) ==
    /\ rule.min_rating # None
    /\ item.rating # None
    /\ item.rating >= rule.min_rating

ExclusionOverride(rule, item) ==
    \/ LibraryOf(item) \in rule.excluded_libraries
    \/ item.genres.tags \cap rule.excluded_genres # {}
    \/ item.collections \cap rule.excluded_collections # {}

\* C11: while the rule of an execute request has dry_run_mode set, every
\* call of delete_media_item the request makes is a dry run
C11_DryRunOnlyRuleNeverExecuted ==
    \A rule \in deletion_rules :
       (batch.pc # "idle" /\ rule.id = batch.rule_id /\ rule.dry_run_mode)
          => \A i \in 1 .. Len(batch.issued) : batch.issued[i]

C13_WellRatedNeverReturned ==
    (scan.pc # "idle" /\ scan.raised = "none") =>
       \A item \in media_items :
          RatingOverride(ScannedRule, item) => item.id \notin Returned

\* C14: a row whose library, genres or collections meet the exclusion lists
\* of the rule is never returned
C14_ExcludedNeverReturned ==
    (scan.pc # "idle" /\ scan.raised = "none") =>
       \A item \in media_items :
          ExclusionOverride(ScannedRule, item) => item.id \notin Returned

\* C15: a row whose last activity (last_watched_at of the row when set, else
\* added_at) is more recent than inactivity_threshold_days is never returned
C15_RecentlyWatchedNeverReturned ==
    (scan.pc # "idle" /\ scan.raised = "none") =>
       \A item \in media_items :
          LET lastActivity == IF item.last_watched_at # None
                              THEN item.last_watched_at ELSE item.added_at
          IN  (/\ item.added_at # None
               /\ Days(UtcNow - lastActivity)
                     < ScannedRule.inactivity_threshold_days)
              => item.id \notin Returned

\* a step in which DeletionService.scan_for_candidates was called
ServiceCalled ==
    \/ scan.pc = "idle" /\ scan'.pc # "idle"
    \/ batch.pc = "idle" /\ batch'.pc # "idle" /\ batch'.scanned

TerminalStatuses == {"complete", "cancelled", "error"}

TerminalEvents(r) ==
    { i \in 1 .. Len(sync[r].events) :
        sync[r].events[i].status \in TerminalStatuses }

\* C17: a run emits no event after a terminal event, has ended once it has
\* emitted one, and has emitted exactly one when it has ended
C17_OneTerminalEventLast ==
    \A r \in RunIds :
       /\ TerminalEvents(r) \subseteq {Len(sync[r].events)}
       /\ TerminalEvents(r) # {} => RunEnded(r)
       /\ RunEnded(r) => TerminalEvents(r) = {Len(sync[r].events)}

\* a run that synced an item and failed elsewhere ended with its one
\* complete event
C17_Witness ==
    /\ sync[1].pc = "done"
    /\ sync[1].errors
    /\ sync[1].synced_items > 0
    /\ LastEvent(1).status = "complete"
    /\ Cardinality(TerminalEvents(1)) = 1

\* C18: of two events of a run that carry a current value, the later one
\* carries no smaller value
C18_ProgressNeverDecreases ==
    \A r \in RunIds :
       \A i, j \in 1 .. Len(sync[r].events) :
          (/\ i < j
           /\ sync[r].events[i].current >= 0
           /\ sync[r].events[j].current >= 0)
          => sync[r].events[i].current <= sync[r].events[j].current

\* the run is at a between-item check with an item or episode ahead
AtCheck(s) ==
    \/ s.pc = "item" /\ s.it <= Len(s.items)
    \/ s.pc = "episode" /\ s.ep <= Len(s.episodes)

\* C19: a run at a between-item check whose user's flag is set does nothing
\* but emit the cancelled event and return, and after that event it writes
\* no row and emits nothing
C19_CancelObservedAtNextCheck ==
    [][\A r \in RunIds :
          LET s == sync[r]
              t == sync'[r]
          IN  /\ (AtCheck(s) /\ IsCancelled(s.user) /\ t # s)
                 => /\ t.pc = "finishing"
                    /\ t.events = Append(s.events,
                                         Event("cancelled", s.synced_items,
                                               s.total_items, -1))
                    /\ t.synced_items = s.synced_items
                    /\ media_items' = media_items
              /\ s.cancelled
                 => /\ t.pc \in {"finishing", "done"}
                    /\ t.events = s.events
                    /\ media_items' = media_items]_vars

\* a run was cancelled at the check before the second server's first item
C19_Witness ==
    /\ sync[1].pc = "done"
    /\ sync[1].cancelled
    /\ sync[1].synced_items = 1
    /\ sync[1].servers_connected = 2
    /\ LastEvent(1).status = "cancelled"

\* C20: a run that connected to no server although it tried one ends with
\* the error event
C20_NoServerResolvedIsError ==
    \A r \in RunIds :
       (RunEnded(r) /\ sync[r].servers_connected = 0
                    /\ sync[r].unreached # {})
          => LastEvent(r).status = "error"

(***************************************************************************)
(* Claims about the servers of a run and the order of its events.          *)
(***************************************************************************)
\* C21: the step in which a run fails to resolve a server emits a warning
\* event as its last event and leaves the run in the resource loop at the
\* next resource
C21_FailedServerSkippedWithWarning ==
    [][\A r \in RunIds :
          LET s == sync[r]
              t == sync'[r]
          IN  t.unreached # s.unreached
                 => /\ t.pc = "resource"
                    /\ t.res = s.res + 1
                    /\ t.events # << >>
                    /\ t.events[Len(t.events)].status = "warning"]_vars

\* C28: in the events of a run no connecting event follows a counting or a
\* syncing event, and no counting event follows a syncing event
C28_EventPhasesInOrder ==
    \A r \in RunIds :
       \A i, j \in 1 .. Len(sync[r].events) :
          i < j =>
             /\ sync[r].events[i].status \in {"counting", "syncing"}
                   => sync[r].events[j].status # "connecting"
             /\ sync[r].events[i].status = "syncing"
                   => sync[r].events[j].status # "counting"

(***************************************************************************)
(* Claims about the candidate loop of execute_deletion.                    *)
(***************************************************************************)
\* C24: while the loop of a request runs and when it has ended, every
\* candidate before the loop index has one detail entry and is counted
\* once as deleted or as failed; a request with candidates ends only after
\* its last candidate, so that deleted + failed is the number of candidates
C24_EveryCandidateCountedOnce ==
    /\ batch.pc \in {"loop", "waiting", "done"} /\ batch.candidates # << >>
          => /\ batch.idx \in 1 .. Len(batch.candidates) + 1
             /\ batch.details =
                   batch.idx - (IF batch.pc = "waiting" THEN 0 ELSE 1)
             /\ batch.deleted_count + batch.failed_count = batch.details
    /\ batch.pc = "done" /\ batch.candidates # << >>
          => /\ batch.idx = Len(batch.candidates) + 1
             /\ batch.deleted_count + batch.failed_count
                   = Len(batch.candidates)

\* a request over two candidates ended after both calls had raised
C24_Witness ==
    /\ batch.pc = "done"
    /\ Len(batch.candidates) = 2
    /\ batch.failed_count = 2
    /\ batch.details = 2
    /\ Len(batch.issued) = 2

(***************************************************************************)
(* Claims about the download-manager and request-broker steps.             *)
(***************************************************************************)
\* the invocation has contacted the download manager of that name
Contacted(name) ==
    \E i \in 1 .. Len(cas.calls) :
       cas.calls[i] \in {name \o ".get", name \o ".delete"}

\* the step dict carries the skipped mark
MarkedSkipped(d) == HasKey(d, "skipped") /\ d.skipped

\* the step ended in its exception handler
StepRaised(d) == HasKey(d, "error") /\ d.error = "exception"

ArrStepsDone == cas.pc \in {"overseerr", "aggregate", "returned"}

OverseerrStepDone ==
    \/ cas.pc \in {"aggregate", "returned"}
    \/ cas.pc = "raised" /\ cas.error = "KeyError"

\* C30: when the media lookup of the Overseerr step was answered with an
\* error status other than not-found, or a delete the step sent was
\* answered with an error status, the step is reported as failed, and an
\* invocation that returns does not return completed
C30_BrokerFailureIsReported ==
    (/\ OverseerrStepDone
     /\ (cas.lookup = "lookup_status" \/ cas.refused))
       => /\ ~ cas.results.overseerr.success
          /\ cas.pc = "returned" => cas.results.overall_status # "completed"

(***************************************************************************)
(* Claims about the deletion_events table.                                 *)
(***************************************************************************)
\* the step begins an invocation of delete_media_item whose insert did not
\* raise
InvocationBegins == cas.pc = "idle" /\ cas'.pc = "plex"

\* C25: a step adds a row to deletion_events exactly when it begins an
\* invocation, and then one row, whose id is the only event id the
\* invocation holds; every other step leaves the number of rows alone and
\* changes no row but the one the running invocation inserted
C25_EventRowsOfEarlierInvocationsKept ==
    [][/\ Len(deletion_events') =
             Len(deletion_events) + (IF InvocationBegins THEN 1 ELSE 0)
       /\ InvocationBegins
             => cas'.event_id \in {0, Len(deletion_events')}
       /\ (cas.pc # "idle" /\ cas'.pc # "idle")
             => cas'.event_id = cas.event_id
       /\ \A e \in 1 .. Len(deletion_events) :
             deletion_events'[e] # deletion_events[e]
                => /\ e = cas.event_id
                   /\ e = Len(deletion_events)
                   /\ cas.pc \notin {"idle", "returned", "raised"}]_vars

\* a retry: two invocations on the same media item, the first ended as
\* failed with no flag set, the second completed with the Plex flag set
C25_Witness ==
    /\ Len(deletion_events) = 2
    /\ deletion_events[1].media_item_id = deletion_events[2].media_item_id
    /\ deletion_events[1].status = "failed"
    /\ ~ deletion_events[1].deleted_from_plex
    /\ deletion_events[2].status = "completed"
    /\ deletion_events[2].deleted_from_plex
    /\ cas.pc = "returned"
    /\ cas.event_id = 2

(***************************************************************************)
(* Claims about connect_to_server.                                         *)
(***************************************************************************)
\* the call the frame holds the history of, and the row it left
Called == conn.machine # 0

RowAfter == servers[conn.machine]

\* the row held a cached address verified at most CacheDurationHours ago
FreshCache(row, now) ==
    /\ row.present
    /\ row.preferred_connection_url # NoUrl
    /\ row.connection_tested_at # None
    /\ AgeHours(now, row.connection_tested_at) <= CacheDurationHours

\* the places of the operations of that name in the call
OpsNamed(op) == { i \in 1 .. Len(conn.ops) : conn.ops[i].op = op }

Did(op) == \E i \in OpsNamed(op) : conn.ops[i].ok

Failed(op) == \E i \in OpsNamed(op) : ~ conn.ops[i].ok

\* C26: a call that read a fresh cached address attempts that address
\* before anything else; when the attempt and the update after it succeed
\* the call returns that server without discovery and the row carries the
\* time of the call and the measured latency; when the attempt fails the
\* clearing update is issued before discovery runs, and the address is
\* gone unless the store refused the update or discovery cached a new
\* one; and after a discovery whose upsert succeeded the row holds the
\* winning address as a fresh cache entry
C26_CachedAddressFirst ==
    Called =>
       /\ (FreshCache(conn.before, conn.at) /\ Did("select"))
             => /\ Len(conn.ops) >= 2
                /\ conn.ops[2].op = "try_cached"
                /\ conn.ops[2].url = conn.before.preferred_connection_url
       /\ (Did("try_cached") /\ Did("update"))
             => /\ conn.returned = conn.before.preferred_connection_url
                /\ OpsNamed("discover") = {}
                /\ RowAfter.preferred_connection_url
                      = conn.before.preferred_connection_url
                /\ RowAfter.connection_tested_at = conn.at
                /\ RowAfter.connection_latency_ms = conn.latency
       /\ Failed("try_cached")
             => /\ OpsNamed("clear") # {}
                /\ OpsNamed("discover") # {}
                /\ \A i \in OpsNamed("clear"), j \in OpsNamed("discover") : i < j
                /\ (Did("clear") /\ ~ Did("upsert_online"))
                      => RowAfter.preferred_connection_url = NoUrl
       /\ Did("upsert_online")
             => /\ \E i \in OpsNamed("discover") :
                      /\ conn.ops[i].ok
                      /\ conn.ops[i].url = conn.returned
                /\ RowAfter.preferred_connection_url = conn.returned
                /\ FreshCache(RowAfter, conn.at)

\* a call found the fresh cached address "local" dead, cleared it and
\* cached "remote", the address discovery reached
C26_Witness ==
    /\ Called
    /\ FreshCache(conn.before, conn.at)
    /\ conn.before.preferred_connection_url = "local"
    /\ Failed("try_cached")
    /\ Did("clear")
    /\ Did("upsert_online")
    /\ conn.returned = "remote"
    /\ RowAfter.preferred_connection_url = "remote"

\* C27: when a call has returned, the status of the row is online if it
\* returned a server and offline if it returned None
C27_StatusReflectsOutcome ==
    (Called /\ conn.returned # "raise")
       => RowAfter.status = (IF conn.returned = "None" THEN "offline"
                             ELSE "online")

\* a call found the cached address of an online server dead, found nothing
\* by discovery either and returned None, leaving the row offline
C27_Witness ==
    /\ Called
    /\ conn.before.status = "online"
    /\ Failed("try_cached")
    /\ Failed("discover")
    /\ conn.returned = "None"
    /\ RowAfter.status = "offline"

(***************************************************************************)
(* Claims about the rows of the catalog over several runs.                 *)
(***************************************************************************)
\* C22: no two rows of the catalog share a (server_id, plex_id) pair, and
\* when a run has synced an item whose pair had a row when the run began,
\* the row of the pair carries the id it had then
C22_UpsertIdempotent ==
    /\ \A row1, row2 \in media_items :
          RowKey(row1) = RowKey(row2) => row1 = row2
    /\ \A r \in RunIds :
          \A key \in sync[r].synced_plex_ids :
             \A before \in sync[r].prior :
                RowKey(before) = key
                   => \E row \in media_items :
                         RowKey(row) = key /\ row.id = before.id

\* the second run has ended complete and has synced an item again whose
\* row the first run had inserted
C22_Witness ==
    /\ runs = 2
    /\ sync[1].pc = "done"
    /\ LastEvent(1).status = "complete"
    /\ \E row \in media_items :
          /\ row.id < 100
          /\ row \in sync[1].prior
          /\ RowKey(row) \in sync[1].synced_plex_ids

\* C23: a run removes no row of a server of another user
C23_RunsOfUsersIndependent ==
    \A r \in RunIds :
       \A row \in sync[r].removed : row.server_id[1] = sync[r].user

(***************************************************************************)
(* Claims about the candidate list of an execute request.                  *)
(***************************************************************************)
\* C31: a request that carries candidate_ids, the empty list included, does
\* not scan its rule, and every candidate it prepares for the cascade
\* deletion has an id of the list
C31_OnlySuppliedCandidates ==
    (batch.pc # "idle" /\ batch.given) =>
        /\ ~ batch.scanned
        /\ \A i \in 1 .. Len(batch.candidates) :
              \E j \in 1 .. Len(batch.candidate_ids) :
                 batch.candidate_ids[j] = batch.candidates[i].id

(***************************************************************************)
(* Claims about overlapping calls of connect_to_server.                    *)
(***************************************************************************)
\* the two overlapping calls have ended and the later call is not made yet
BothEnded ==
    /\ \A c \in {1, 2} : race.frame[c].pc = "done"
    /\ race.frame[3].pc = "idle"

PlacesOf(ns) == { i \in 1 .. Len(ident.guids) : ident.guids[i].ns = ns }

\* C33: the id the row carries for a namespace is the id of the first guid
\* of that namespace in the item's list, and None when the list has none
C33_FirstMatchWins ==
    ident.pc = "done" =>
       \A ns \in Namespaces :
          IF PlacesOf(ns) = {}
          THEN ident.row[ns] = None
          ELSE \E i \in PlacesOf(ns) :
                  /\ \A j \in PlacesOf(ns) : i <= j
                  /\ ident.row[ns] = ident.guids[i].id

(***************************************************************************)
(* Claims about the deletion event of an invocation.                       *)
(***************************************************************************)
\* C34: an invocation that has ended and whose insert returned a row has
\* returned a result, and the status of its row is completed, partial or
\* failed
C34_EventReachesTerminalStatus ==
    (cas.pc \in {"returned", "raised"} /\ cas.event_id # 0) =>
        /\ cas.pc = "returned"
        /\ deletion_events[cas.event_id].status
              \in {"completed", "partial", "failed"}

\* the delete calls an invocation sends to Plex, Sonarr, Radarr and Overseerr
DeleteCalls ==
    {"plex.delete", "sonarr.delete", "radarr.delete", "overseerr.delete"}

\* C35: in an invocation that is no dry run every delete call sent to Plex,
\* Sonarr, Radarr or Overseerr comes after the insert of the deletion
\* event, and an invocation whose insert raised or returned no row sends no
\* delete call
C35_AuditBeforeAction ==
    (cas.pc # "idle" /\ ~ cas.dry_run) =>
        /\ \A i \in 1 .. Len(cas.calls) :
              cas.calls[i] \in DeleteCalls
                 => \E j \in 1 .. i - 1 :
                       cas.calls[j] = "deletion_events.insert"
        /\ cas.event_id = 0 => CountCalls(cas.calls, DeleteCalls) = 0

(***************************************************************************)
(* Claims about the cancellation registry and overlapping runs.            *)
(***************************************************************************)
\* C36: while a run is at a between-item check with the cancellation of
\* its user pending, no step of another run or request clears the
\* cancellation
C36_PendingCancellationKept ==
    [][\A r \in RunIds :
          ( /\ AtCheck(sync[r])
            /\ IsCancelled(sync[r].user)
            /\ sync'[r] = sync[r] )
             => active_syncs'[sync[r].user] = "true"]_vars

\* run r has ended or was not started
Terminated(r) == sync[r].pc \in {"idle", "done"}

\* C37: when the runs of a user have ended the user has no entry in the
\* registry; and while the last cancel_sync of the user was answered with
\* "No active sync found", a run of the user in progress has its flag
\* unset and has not been cancelled
C37_CancelWithoutRunHasNoEffect ==
    /\ Terminated(1) => active_syncs["u1"] = "absent"
    /\ (cancel_reply["u1"] = "no_active" /\ ~ Terminated(1)) =>
          /\ active_syncs["u1"] = "false"
          /\ ~ sync[1].cancelled

\* the first run ended, a cancel_sync was answered with "No active sync
\* found", and the second run is in its item loop with an item ahead
C37_Witness ==
    /\ runs = 2
    /\ cancel_reply["u1"] = "no_active"
    /\ AtCheck(sync[1])
    /\ active_syncs["u1"] = "false"

(***************************************************************************)
(* Claims about the orphan cleanup and the items a run has seen.           *)
(***************************************************************************)
\* C38: the cleanup of a run removes no row of an item the run has
\* enumerated on a server, whatever the processing of the item met
C38_EnumeratedRowsSurvive ==
    \A r \in RunIds :
       \A row \in sync[r].removed : RowKey(row) \notin sync[r].observed

(***************************************************************************)
(* Claims about the numbers of the progress events.                        *)
(***************************************************************************)
\* C39: every event of a run that carries the counters has
\* 0 <= current <= total, and the eta_seconds of every progress event is
\* not negative, whatever time the run has taken
C39_ProgressNumbersInRange ==
    \A r \in RunIds :
       \A i \in 1 .. Len(sync[r].events) :
          LET e == sync[r].events[i]
          IN  e.current # -1 =>
                 /\ 0 <= e.current
                 /\ e.current <= e.total
                 /\ e.status = "syncing" =>
                       \A elapsed \in 0 .. MaxElapsed :
                          EtaSeconds(e.total, e.current, elapsed) >= 0

(***************************************************************************)
(* Claims about the watch-history stream.                                  *)
(***************************************************************************)
\* C40: the generator of the watch-history stream ends, and its last event
\* is a complete or an error event
C40_StreamTerminates ==
    <>(taut.pc = "done" /\ taut.last \in {"complete", "error"})

====
